---- MODULE Spec2Model ----
(***************************************************************************)
(* A model of surreal-simple-querybuilder: the ForeignKey tri-state        *)
(* reference and its serde contract, the QueryBuilder segment assembler,   *)
(* the injecter composition algebra and the schema path algebra.           *)
(*                                                                         *)
(* Strings that the program assembles character by character (query text,  *)
(* paths) are sequences of one-character strings; opaque strings (record   *)
(* keys, handles) are TLA+ strings.                                        *)
(***************************************************************************)
EXTENDS Integers, Sequences, FiniteSets, TLC

VARIABLES
  \* ---- ForeignKey<V, K> (src/src/foreign_key/foreign_key.rs:84-89)
  inner,                  \* LoadedValue<V, K>
  allow_value_serialize,  \* OnceCell<bool>: <<>> when empty, <<TRUE>> when set
  fkOp,                   \* the last operation called on the ForeignKey
  fkArg,                  \* its argument
  fkRet,                  \* what it returned
  \* ---- QueryBuilder (src/src/querybuilder.rs:5-9)
  segments,               \* Vec<CowSegment>
  parameters,             \* HashMap<&str, &str>, as a set of <<key, value>>
  storage,                \* Vec<String>
  qbpc,                   \* "open", or where build() stands
  output,                 \* build()'s output string
  pending,                \* build(): the parameters not yet iterated over
  cur,                    \* build(): the parameter whose while loop runs
  \* ---- query(component) and bindings(component) (src/src/queries/mod.rs)
  component,              \* the injecter handed to both
  overflow_checks,        \* the build profile: TRUE panics on u64 overflow
  queryRet,               \* <<>> until query(&component) returned, then <<r>>
  bindingsRet,            \* <<>> until bindings(component) returned, then <<r>>
  \* ---- Pagination::new_page (src/src/types/pagination.rs:29-39)
  page,                   \* u64
  page_size,              \* u64
  pagination,             \* <<>> until new_page returned, then <<r>>
  limitRet,               \* <<>> until limit() returned, then <<r>>
  startRet,               \* <<>> until start() returned, then <<r>>
  \* ---- a chain of accesses on a model constant (src/src/model)
  generator,              \* which macro generated the model's accessors
  table,                  \* the model struct the chain stands on
  origin,                 \* its origin: Option<OriginHolder<N>>
  idents,                 \* the identifiers traversed so far, in order
  schema_field,           \* the SchemaField the chain ended on, if it has
  rendered                \* <<>> until field.to_string() returned, then <<s>>

fkVars == <<inner, allow_value_serialize, fkOp, fkArg, fkRet>>
qbVars == <<segments, parameters, storage, qbpc, output, pending, cur>>

pageVars == <<page, page_size, pagination, limitRet, startRet>>

injVars == <<component, overflow_checks, queryRet, bindingsRet, pageVars>>

pathVars == <<generator, table, origin, idents, schema_field, rendered>>

vars == <<inner, allow_value_serialize, fkOp, fkArg, fkRet,
          segments, parameters, storage, qbpc, output, pending, cur,
          component, overflow_checks, queryRet, bindingsRet,
          page, page_size, pagination, limitRet, startRet,
          generator, table, origin, idents, schema_field, rendered>>

\* What the operations of one part leave alone: the other parts.
notFK == <<qbVars, injVars, pathVars>>
notQB == <<fkVars, injVars, pathVars>>
notInj == <<fkVars, qbVars, pathVars>>
notPath == <<fkVars, qbVars, injVars>>

(***************************************************************************)
(* Option<T> and Result<T, E>                                              *)
(***************************************************************************)
None == <<>>
Some(x) == <<x>>

Ok(x) == [ok |-> TRUE, val |-> x]
Err(e) == [ok |-> FALSE, err |-> e]

(***************************************************************************)
(* JSON values (serde_json::Value)                                         *)
(***************************************************************************)
JNull == [t |-> "null"]
JStr(s) == [t |-> "str", s |-> s]
JNum(n) == [t |-> "num", n |-> n]
JObj(fields) == [t |-> "obj", f |-> fields]

(***************************************************************************)
(* The value and key types of the tests: Foreign<Account> is               *)
(* ForeignKey<Account, String>.                                            *)
(***************************************************************************)
Keys == {"Account:John", "Account:Mark"}
Handles == {"JohnTheUser", "MarkTheUser"}

\* struct Account { id: Option<String>, handle: String, .. }
Account == [id : {None} \cup {Some(k) : k \in Keys}, handle : Handles]

\* #[derive(Serialize)] on Account
SerializeAccount(v) ==
  JObj([id |-> IF v.id = None THEN JNull ELSE JStr(v.id[1]),
        handle |-> JStr(v.handle)])

\* #[derive(Deserialize)] on Account: a map with a string `handle`; `id` is an
\* Option, so it may be missing or null.
DeserializeAccount(j) ==
  IF /\ j.t = "obj"
     /\ "handle" \in DOMAIN j.f
     /\ j.f.handle.t = "str"
     /\ ("id" \in DOMAIN j.f => j.f.id.t \in {"null", "str"})
  THEN Ok([id |-> IF "id" \in DOMAIN j.f /\ j.f.id.t = "str"
                  THEN Some(j.f.id.s) ELSE None,
           handle |-> j.f.handle.s])
  ELSE Err("invalid type")

\* String as Deserialize
DeserializeKey(j) == IF j.t = "str" THEN Ok(j.s) ELSE Err("invalid type")

\* impl IntoKey<String> for Account
IntoKeyEmptyDefault(v) == IF v.id = None THEN Ok("") ELSE Ok(v.id[1])
into_key(v) == IF v.id = None THEN Err("MissingId") ELSE Ok(v.id[1])

(***************************************************************************)
(* LoadedValue<V, K>                                                       *)
(***************************************************************************)
Loaded(v) == [tag |-> "Loaded", v |-> v]
Key(k) == [tag |-> "Key", k |-> k]
Unloaded == [tag |-> "Unloaded"]

LoadedValue == {Loaded(v) : v \in Account} \cup {Key(k) : k \in Keys} \cup {Unloaded}

is_loaded(lv) == lv.tag = "Loaded"
IsKeyOrLoaded(lv) == lv.tag \in {"Key", "Loaded"}
is_key(lv) == lv.tag = "Key"
is_unloaded(lv) == lv.tag = "Unloaded"

value(lv) == IF lv.tag = "Loaded" THEN Some(lv.v) ELSE None
key(lv) == IF lv.tag = "Key" THEN Some(lv.k) ELSE None

\* impl Serialize for LoadedValue
SerializeLoadedValue(lv) ==
  CASE lv.tag = "Loaded" -> Ok(SerializeAccount(lv.v))
    [] lv.tag = "Key" -> Ok(JStr(lv.k))
    [] lv.tag = "Unloaded" -> Ok(JNull)

\* #[derive(Deserialize)] #[serde(untagged)] on LoadedValue: the variants are
\* tried in declaration order, Loaded(V), Key(K), then the unit variant.
DeserializeNoKeyVariant(j) ==
  IF DeserializeAccount(j).ok THEN Ok(Loaded(DeserializeAccount(j).val))
  ELSE IF j.t = "null" THEN Ok(Unloaded)
  ELSE Err("data did not match any variant of untagged enum LoadedValue")
DeserializeLoadedValue(j) ==
  IF DeserializeAccount(j).ok THEN Ok(Loaded(DeserializeAccount(j).val))
  ELSE IF DeserializeKey(j).ok THEN Ok(Key(DeserializeKey(j).val))
  ELSE IF j.t = "null" THEN Ok(Unloaded)
  ELSE Err("data did not match any variant of untagged enum LoadedValue")

(***************************************************************************)
(* ForeignKey<V, K>                                                        *)
(***************************************************************************)
\* self.allow_value_serialize.get().unwrap_or(&false)
FlagGet(cell) == IF cell = <<>> THEN FALSE ELSE cell[1]

\* impl Serialize for ForeignKey
SerializeAlwaysValue(lv, cell) == SerializeLoadedValue(lv)
SerializeForeignKey(lv, cell) ==
  IF lv.tag = "Loaded" /\ FlagGet(cell) = FALSE
  THEN IF into_key(lv.v).ok
       THEN Ok(JStr(into_key(lv.v).val))
       ELSE Err(into_key(lv.v).err)
  ELSE SerializeLoadedValue(lv)

\* The inputs handed to the deserializer.
JsonInputs ==
  {JNull, JNum(5)}
    \cup {JStr(k) : k \in Keys}
    \cup {SerializeAccount(v) : v \in Account}
    \cup {JObj([id |-> JStr(k)]) : k \in Keys}

FKIdle ==
  /\ inner = Unloaded
  /\ allow_value_serialize = <<>>
  /\ fkOp = "default"
  /\ fkArg = None
  /\ fkRet = None

(***************************************************************************)
(* Strings as sequences of characters                                      *)
(***************************************************************************)
kwCREATE == <<"C", "R", "E", "A", "T", "E">>
kwUPDATE == <<"U", "P", "D", "A", "T", "E">>
kwSELECT == <<"S", "E", "L", "E", "C", "T">>
kwDELETE == <<"D", "E", "L", "E", "T", "E">>
kwRELATE == <<"R", "E", "L", "A", "T", "E">>
kwCONTENT == <<"C", "O", "N", "T", "E", "N", "T">>
kwFROM == <<"F", "R", "O", "M">>
kwWHERE == <<"W", "H", "E", "R", "E">>
kwOR == <<"O", "R">>
kwAND == <<"A", "N", "D">>
kwSET == <<"S", "E", "T">>
kwFETCH == <<"F", "E", "T", "C", "H">>
kwGROUPBY == <<"G", "R", "O", "U", "P", " ", "B", "Y">>
kwORDERBY == <<"O", "R", "D", "E", "R", " ", "B", "Y">>
kwASC == <<"A", "S", "C">>
kwDESC == <<"D", "E", "S", "C">>
kwLIMIT == <<"L", "I", "M", "I", "T">>
kwSTARTAT == <<"S", "T", "A", "R", "T", " ", "A", "T">>
COMMA == <<",">>
LPAREN == <<"(">>
RPAREN == <<")">>
SPACE == <<" ">>
EMPTY == <<>>

\* [String]::join(sep)
RECURSIVE Join(_, _)
Join(strs, sep) ==
  IF strs = <<>> THEN <<>>
  ELSE IF Len(strs) = 1 THEN strs[1]
  ELSE strs[1] \o sep \o Join(Tail(strs), sep)

\* str::find(pat): the 1-based index of the first match, 0 when there is none
\* (the empty pattern matches at the start).
Find(s, pat) ==
  LET hits == {i \in 1..(Len(s) - Len(pat) + 1) :
                 SubSeq(s, i, i + Len(pat) - 1) = pat}
  IN IF hits = {} THEN 0 ELSE CHOOSE i \in hits : \A j \in hits : i <= j

\* String::replace_range(index..index + n, with)
ReplaceRange(s, index, n, with) ==
  SubSeq(s, 1, index - 1) \o with \o SubSeq(s, index + n, Len(s))

(***************************************************************************)
(* QueryBuilder: the builder is a record of its three fields; each method  *)
(* is an operator from builder to builder.                                 *)
(***************************************************************************)
MaxSegments == 3
MaxAction == 2
MaxMany == 2

NewQB == [segments |-> <<>>, parameters |-> {}, storage |-> <<>>]

AddSegmentKeepEmpty(qb, segment) ==
  [qb EXCEPT !.segments = Append(@, segment)]
add_segment(qb, segment) ==
  IF segment = <<>> THEN qb
  ELSE [qb EXCEPT !.segments = Append(@, segment)]

add_segment_p(qb, prefix, segment) ==
  add_segment(add_segment(qb, prefix), segment)

add_segment_ps(qb, prefix, segment, suffix) ==
  add_segment(add_segment_p(qb, prefix, segment), suffix)

create(qb, node) == add_segment_p(qb, kwCREATE, node)
update(qb, node) == add_segment_p(qb, kwUPDATE, node)
select(qb, node) == add_segment_p(qb, kwSELECT, node)
delete(qb, node) == add_segment_p(qb, kwDELETE, node)
relate(qb, node) == add_segment_p(qb, kwRELATE, node)
content(qb, json_content) == add_segment_p(qb, kwCONTENT, json_content)
from(qb, node) == add_segment_p(qb, kwFROM, node)
also(qb, query) == add_segment_p(qb, COMMA, query)
filter(qb, condition) == add_segment_p(qb, kwWHERE, condition)
and_where(qb, condition) == filter(qb, condition)
or(qb, condition) == add_segment_p(qb, kwOR, condition)
and(qb, condition) == add_segment_p(qb, kwAND, condition)
set(qb, upd) == add_segment_p(qb, kwSET, upd)
fetch(qb, field) == add_segment_p(qb, kwFETCH, field)
group_by(qb, field) == add_segment_p(qb, kwGROUPBY, field)
order_by_asc(qb, field) == add_segment_ps(qb, kwORDERBY, field, kwASC)
order_by_desc(qb, field) == add_segment_ps(qb, kwORDERBY, field, kwDESC)
limit(qb, lim) == add_segment_p(qb, kwLIMIT, lim)
start_at(qb, offset) == add_segment_p(qb, kwSTARTAT, offset)
raw(qb, text) == add_segment(qb, text)

\* for i in 0..segments_count - 1 { add_segment_ps; add_segment(seperator) }
RECURSIVE JoinLoop(_, _, _, _, _, _)
JoinLoop(qb, seperator, prefix, segs, suffix, i) ==
  IF i > Len(segs) - 1 THEN qb
  ELSE JoinLoop(add_segment(add_segment_ps(qb, prefix, segs[i], suffix), seperator),
                seperator, prefix, segs, suffix, i + 1)

join_segments(qb, seperator, prefix, segs, suffix) ==
  IF Len(segs) <= 1
  THEN IF Len(segs) = 0 THEN qb ELSE add_segment_ps(qb, prefix, segs[1], suffix)
  ELSE add_segment_ps(JoinLoop(qb, seperator, prefix, segs, suffix, 1),
                      prefix, segs[Len(segs)], suffix)

select_many(qb, nodes) ==
  join_segments(add_segment(qb, kwSELECT), COMMA, EMPTY, nodes, EMPTY)
set_many(qb, updates) ==
  join_segments(add_segment(qb, kwSET), COMMA, EMPTY, updates, EMPTY)
fetch_many(qb, fields) ==
  join_segments(add_segment(qb, kwFETCH), COMMA, EMPTY, fields, EMPTY)
group_by_many(qb, fields) ==
  join_segments(add_segment(qb, kwGROUPBY), COMMA, EMPTY, fields, EMPTY)
order_by_asc_many(qb, fields) ==
  join_segments(add_segment(qb, kwORDERBY), COMMA, EMPTY, fields, kwASC)
order_by_desc_many(qb, fields) ==
  join_segments(add_segment(qb, kwORDERBY), COMMA, EMPTY, fields, kwDESC)

\* parameters.insert(key, value)
param(qb, k, v) ==
  [qb EXCEPT !.parameters = {p \in @ : p[1] # k} \cup {<<k, v>>}]

\* storage.push(string); the returned QueryBuilderSegment::Ref(i) is not kept
hold(qb, string) == [qb EXCEPT !.storage = Append(@, string)]

\* commas' loop: the first segment is pushed as it is, every later one after
\* add_segment(",")
RECURSIVE CommasLoop(_, _, _)
CommasLoop(qb, others, index) ==
  IF index > Len(others) THEN qb
  ELSE IF index <= 1
  THEN CommasLoop([qb EXCEPT !.segments = Append(@, others[index])],
                  others, index + 1)
  ELSE CommasLoop([add_segment(qb, COMMA) EXCEPT
                     !.segments = Append(@, others[index])],
                  others, index + 1)

\* A closure handed to if_then, and_group or commas is a sequence of calls,
\* each a record naming the method and its arguments.
RECURSIVE Apply(_, _)
RECURSIVE Inject(_, _)

IfThenAlwaysRuns(qb, condition, action) == Apply(action, qb)
if_then(qb, condition, action) ==
  IF ~condition THEN qb ELSE Apply(action, qb)

AndGroupLeftOpen(qb, first_condition, action) ==
  Apply(action, add_segment(add_segment_p(qb, kwAND, LPAREN), first_condition))
and_group(qb, first_condition, action) ==
  add_segment(
    Apply(action, add_segment(add_segment_p(qb, kwAND, LPAREN), first_condition)),
    RPAREN)

CommasKeepsSubBuilder(qb, action) ==
  LET other == Apply(action, NewQB) IN
  [CommasLoop(qb, other.segments, 1) EXCEPT
     !.parameters = @ \cup other.parameters,
     !.storage = @ \o other.storage]
CommasNoSeparator(qb, action) ==
  [qb EXCEPT !.segments = @ \o Apply(action, NewQB).segments]
commas(qb, action) == CommasLoop(qb, Apply(action, NewQB).segments, 1)

\* ands and ors are called by Where, And and Or; the scope they open is the
\* closure's segments with the joiner between them, added as one segment.
JoinedScope(qb, action, joiner) ==
  add_segment(qb, Join(Apply(action, NewQB).segments, SPACE \o joiner \o SPACE))

ands(qb, action) == JoinedScope(qb, action, kwAND)
ors(qb, action) == JoinedScope(qb, action, kwOR)

\* |q| self.0.inject(q)
InjectInto(inj) == <<[op |-> "inject", i |-> inj]>>

ApplyCall(c, qb) ==
  CASE c.op = "raw" -> raw(qb, c.a)
    [] c.op = "start_at" -> start_at(qb, c.a)
    [] c.op = "inject" -> Inject(c.i, qb)
    [] c.op = "or" -> or(qb, c.a)
    [] c.op = "and" -> and(qb, c.a)
    [] c.op = "also" -> also(qb, c.a)
    [] c.op = "if_then" -> if_then(qb, c.c, c.f)
    [] c.op = "and_group" -> and_group(qb, c.a, c.f)
    [] c.op = "commas" -> commas(qb, c.f)
    [] c.op = "param" -> param(qb, c.k, c.v)
    [] c.op = "hold" -> hold(qb, c.s)

Apply(action, qb) ==
  IF action = <<>> THEN qb
  ELSE Apply(Tail(action), ApplyCall(Head(action), qb))

\* build(): let mut output = self.segments.join(" ")
BuildJoin(segs) == Join(segs, SPACE)

(***************************************************************************)
(* NodeBuilder for String: the target is the string itself; an action is a *)
(* sequence of calls on it.                                                *)
(***************************************************************************)
ARROW == <<"-", ">">>

with(s, node) == s \o ARROW \o node

RECURSIVE ApplyNode(_, _)

NodeBuilder_if_then(s, condition, action) ==
  IF condition THEN ApplyNode(action, s) ELSE s

ApplyNode(action, s) ==
  IF action = <<>> THEN s
  ELSE ApplyNode(Tail(action),
         IF Head(action).op = "with" THEN with(s, Head(action).a)
         ELSE NodeBuilder_if_then(s, Head(action).c, Head(action).f))

(***************************************************************************)
(* Injecters: a component is a record tagged by its Rust type; inject      *)
(* maps a builder to a builder, params folds bindings into a BindingMap.   *)
(***************************************************************************)
UWidth == 6
U64 == 2 ^ UWidth
MaxFields == 2
MaxVec == 3

Unit == [c |-> "()"]
OptNone == [c |-> "Option", o |-> None]
OptSome(x) == [c |-> "Option", o |-> Some(x)]
\* IntoOptionalInjecterExt::when
WhenIgnoresCondition(x, condition) == OptSome(x)
when(x, condition) == IF condition THEN OptSome(x) ELSE OptNone
Vec(items) == [c |-> "Vec", items |-> items]
Tuple(items) == [c |-> "Tuple", items |-> items]
Pair(k, v) == [c |-> "Pair", k |-> k, v |-> v]
PairSql(k, text) == [c |-> "PairSql", k |-> k, text |-> text]
Slice(pairs) == [c |-> "Slice", items |-> pairs]
Json(v) == [c |-> "Json", v |-> v]
Equal(x) == [c |-> "Equal", i |-> x]
Sql(text) == [c |-> "Sql", text |-> text]
Select(text) == [c |-> "Select", text |-> text]
From(text) == [c |-> "From", text |-> text]
Create(text) == [c |-> "Create", text |-> text]
Limit(text) == [c |-> "Limit", text |-> text]
Where(x) == [c |-> "Where", i |-> x]
Set(x) == [c |-> "Set", i |-> x]
Or(x) == [c |-> "Or", i |-> x]
OrStr(text) == [c |-> "OrStr", text |-> text]
And(x) == [c |-> "And", i |-> x]
AndStr(text) == [c |-> "AndStr", text |-> text]
Also(x) == [c |-> "Also", i |-> x]
AlsoStr(text) == [c |-> "AlsoStr", text |-> text]
Pagination(start, end) == [c |-> "Pagination", start |-> start, end |-> end]

\* u64::to_string
Digits == <<"0", "1", "2", "3", "4", "5", "6", "7", "8", "9">>
RECURSIVE to_string(_)
to_string(n) ==
  IF n < 10 THEN <<Digits[n + 1]>>
  ELSE to_string(n \div 10) \o <<Digits[(n % 10) + 1]>>

\* format!("{self} = {value}") and format!("{self} = ${self}")
equals(k, val) == k \o <<" ", "=", " ">> \o val
equals_parameterized(k) == k \o <<" ", "=", " ", "$">> \o k

\* The name a key is bound under: the key itself, for a key without dots.
as_param(k) == k

\* serde_json::to_value: a value whose Serialize impl fails gives Err
Unserializable == [t |-> "unserializable"]
\* Option::<T>::None handed as the value of a pair
NoneValue == [t |-> "None"]
\* serde_json::to_value: None serializes as null
to_value(v) ==
  IF v = Unserializable THEN Err("serde_json::Error")
  ELSE IF v = NoneValue THEN Ok(JNull)
  ELSE Ok(v)
to_param_value(v) == Ok(v)
ser_to_param_value(v) ==
  IF ~to_value(v).ok THEN to_value(v) ELSE to_param_value(to_value(v).val)

\* BindingMap = HashMap<String, serde_json::Value>, as a function
EmptyMap == [x \in {} |-> JNull]
Insert(map, k, v) == [x \in DOMAIN map \cup {k} |-> IF x = k THEN v ELSE map[x]]

\* What params leaves behind: its Result and the map it wrote into.
Done(res, map) == [res |-> res, map |-> map]
ResultAnd(a, b) == IF a.ok THEN b ELSE a

equal_inject(qb, k) == add_segment(qb, equals_parameterized(k))

EqualParamsNoInsert(map, k, v) == Done(Ok("()"), map)
equal_params(map, k, v) ==
  IF ser_to_param_value(v).ok
  THEN Done(Ok("()"), Insert(map, as_param(k), ser_to_param_value(v).val))
  ELSE Done(ser_to_param_value(v), map)

\* Pagination::limit: end - start on u64 wraps when overflow checks are off
PaginationLimit(p) == (p.end - p.start + U64) % U64
PaginationStart(p) == p.start

RECURSIVE TupleInject(_, _)
RECURSIVE VecInject(_, _)
RECURSIVE KeysInject(_, _)

\* self.1.inject(self.0.inject(querybuilder)), and so on for 3 and 4
TupleInjectRightFirst(items, qb) ==
  IF Len(items) = 1 THEN Inject(items[1], qb)
  ELSE Inject(items[1], TupleInject(Tail(items), qb))
TupleInject(items, qb) ==
  IF Len(items) = 1 THEN Inject(items[1], qb)
  ELSE Inject(items[Len(items)], TupleInject(SubSeq(items, 1, Len(items) - 1), qb))

\* for injecter in self { querybuilder = injecter.inject(querybuilder) }
VecInject(items, qb) ==
  IF items = <<>> THEN qb ELSE VecInject(Tail(items), Inject(Head(items), qb))

\* for key in map.keys() { query = Equal::equal_inject(query, key) }
KeysInject(fields, qb) ==
  IF fields = <<>> THEN qb
  ELSE KeysInject(Tail(fields), equal_inject(qb, Head(fields)[1]))

WhereInjectNoScope(inj, qb) == Inject(inj, filter(qb, EMPTY))
WhereInject(inj, qb) == ands(filter(qb, EMPTY), InjectInto(inj))
SetInject(inj, qb) == commas(set(qb, EMPTY), InjectInto(inj))

PaginationInject(p, qb) ==
  if_then(limit(qb, to_string(PaginationLimit(p))),
          PaginationStart(p) > 0,
          <<[op |-> "start_at", a |-> to_string(PaginationStart(p))]>>)

Inject(inj, qb) ==
  CASE inj.c = "()" -> qb
    [] inj.c = "Option" -> IF inj.o = None THEN qb ELSE Inject(inj.o[1], qb)
    [] inj.c = "Vec" -> VecInject(inj.items, qb)
    [] inj.c = "Tuple" -> TupleInject(inj.items, qb)
    [] inj.c = "Pair" -> equal_inject(qb, inj.k)
    [] inj.c = "PairSql" -> add_segment(qb, equals(inj.k, inj.text))
    [] inj.c = "Slice" -> VecInject(inj.items, qb)
    [] inj.c = "Json" -> IF inj.v.t = "obj" THEN KeysInject(inj.v.f, qb) ELSE qb
    [] inj.c = "Equal" -> Inject(inj.i, qb)
    [] inj.c = "Sql" -> raw(qb, inj.text)
    [] inj.c = "Select" -> select(qb, inj.text)
    [] inj.c = "From" -> from(qb, inj.text)
    [] inj.c = "Create" -> create(qb, inj.text)
    [] inj.c = "Limit" -> limit(qb, inj.text)
    [] inj.c = "Where" -> WhereInject(inj.i, qb)
    [] inj.c = "Set" -> SetInject(inj.i, qb)
    [] inj.c = "Or" -> ors(qb, InjectInto(inj.i))
    [] inj.c = "OrStr" -> or(qb, inj.text)
    [] inj.c = "And" -> ands(qb, InjectInto(inj.i))
    [] inj.c = "AndStr" -> and(qb, inj.text)
    [] inj.c = "Also" -> commas(qb, InjectInto(inj.i))
    [] inj.c = "AlsoStr" -> also(qb, inj.text)
    [] inj.c = "Pagination" -> PaginationInject(inj, qb)

RECURSIVE Params(_, _)
RECURSIVE TupleParams(_, _)
RECURSIVE VecParams(_, _)
RECURSIVE ExtendParams(_, _)

\* self.1.params(map).and(self.0.params(map)): the receiver runs first, then
\* the argument of and, which is evaluated whatever the receiver returned.
TupleParams(items, map) ==
  IF Len(items) = 1 THEN Params(items[1], map)
  ELSE LET last == Params(items[Len(items)], map)
           rest == TupleParams(SubSeq(items, 1, Len(items) - 1), last.map)
       IN Done(ResultAnd(last.res, rest.res), rest.map)

\* for injecter in self { injecter.params(map)?; } Ok(())
VecParams(items, map) ==
  IF items = <<>> THEN Done(Ok("()"), map)
  ELSE LET first == Params(Head(items), map)
       IN IF first.res.ok THEN VecParams(Tail(items), first.map) ELSE first

\* params.extend(map.into_iter().map(|(key, value)| (key.as_param(), ...)))
ExtendParams(fields, map) ==
  IF fields = <<>> THEN map
  ELSE ExtendParams(Tail(fields),
         Insert(map, as_param(Head(fields)[1]), to_param_value(Head(fields)[2]).val))

Params(inj, map) ==
  CASE inj.c = "Option" ->
         IF inj.o = None THEN Done(Ok("()"), map) ELSE Params(inj.o[1], map)
    [] inj.c = "Vec" -> VecParams(inj.items, map)
    [] inj.c = "Tuple" -> TupleParams(inj.items, map)
    [] inj.c = "Pair" -> equal_params(map, inj.k, inj.v)
    [] inj.c = "Slice" -> VecParams(inj.items, map)
    [] inj.c = "Json" ->
         IF inj.v.t = "obj" THEN Done(Ok("()"), ExtendParams(inj.v.f, map))
         ELSE Done(Ok("()"), map)
    [] inj.c \in {"Equal", "Where", "Set", "Or", "And", "Also"} -> Params(inj.i, map)
    [] OTHER -> Done(Ok("()"), map)

\* Whether inject panics: Pagination::limit subtracts with overflow checks on.
RECURSIVE Panics(_, _)
Panics(inj, checks) ==
  CASE inj.c = "Pagination" -> checks /\ inj.end < inj.start
    [] inj.c \in {"Vec", "Tuple"} ->
         \E i \in DOMAIN inj.items : Panics(inj.items[i], checks)
    [] inj.c = "Option" -> inj.o # None /\ Panics(inj.o[1], checks)
    [] inj.c \in {"Equal", "Where", "Set", "Or", "And", "Also"} ->
         Panics(inj.i, checks)
    [] OTHER -> FALSE

Panicked == [ok |-> FALSE, panic |-> TRUE]

\* Pagination::new_page: page * page_size..(page + 1) * page_size on u64. With
\* overflow checks each operation panics when its result does not fit; without
\* them it wraps.
new_page(p, size, checks) ==
  IF checks /\ (p * size >= U64 \/ p + 1 >= U64 \/ (p + 1) * size >= U64)
  THEN Panicked
  ELSE Ok(Pagination((p * size) % U64, (((p + 1) % U64) * size) % U64))

\* Pagination::limit with the build's overflow behaviour
limit_of(p, checks) ==
  IF checks /\ p.end < p.start THEN Panicked ELSE Ok(PaginationLimit(p))

\* query(&component): no injecter calls param, so build() is the join alone
query(inj, checks) ==
  IF Panics(inj, checks) THEN Panicked
  ELSE Ok(BuildJoin(Inject(inj, NewQB).segments))

\* bindings(component): component.params(&mut params)?; Ok(params)
bindings(inj) ==
  IF Params(inj, EmptyMap).res.ok THEN Ok(Params(inj, EmptyMap).map)
  ELSE Params(inj, EmptyMap).res

PageIdle ==
  /\ page = 0
  /\ page_size = 0
  /\ pagination = None
  /\ limitRet = None
  /\ startRet = None

InjIdle ==
  /\ component = Unit
  /\ overflow_checks = FALSE
  /\ queryRet = None
  /\ bindingsRet = None
  /\ PageIdle

(***************************************************************************)
(* Models, schema fields and origins                                       *)
(***************************************************************************)
MaxDepth == 4

DOT == <<".">>
col_id == <<"i", "d">>
col_name == <<"n", "a", "m", "e">>
col_author == <<"a", "u", "t", "h", "o", "r">>
col_handle == <<"h", "a", "n", "d", "l", "e">>
col_files == <<"f", "i", "l", "e", "s">>
col_password == <<"p", "a", "s", "s", "w", "o", "r", "d">>
col_email == <<"e", "m", "a", "i", "l">>
col_friends == <<"f", "r", "i", "e", "n", "d", "s">>

\* The models of the crate's documentation and tests:
\*   File { id, name, author<User> }, User { id, handle, files<File> },
\*   Account { handle, password, email, friends<Account> }
\*   Account { ->manage->Project as managed_projects },
\*   Project { id, name, <-manage<-Account as authors }
ModelNames == {"File", "User", "Account", "Project"}
Columns(m) ==
  CASE m = "File" -> {col_id, col_name, col_author}
    [] m = "User" -> {col_id, col_handle, col_files}
    [] m = "Account" -> {col_handle, col_password, col_email, col_friends}
    [] m = "Project" -> {col_id, col_name}
ForeignType(m, name) ==
  CASE m = "File" /\ name = col_author -> Some("User")
    [] m = "User" /\ name = col_files -> Some("File")
    [] m = "Account" /\ name = col_friends -> Some("Account")
    [] OTHER -> None

\* SchemaField { identifier, origin_holder }
SchemaField(identifier, origin_holder) ==
  [identifier |-> identifier, origin_holder |-> origin_holder]

\* self.origin.unwrap_or_else(|| OriginHolder::new([""; N])), N = 0 at the root
OriginSegments(o) == IF o = None THEN <<>> ELSE o[1]

\* impl Display for OriginHolder: the segments with a dot between neighbours
DisplayOriginHolder(segs) == Join(segs, DOT)

\* impl Display for SchemaField
DisplaySchemaField(f) ==
  IF f.origin_holder # None
  THEN DisplayOriginHolder(f.origin_holder[1]) \o f.identifier
  ELSE f.identifier

\* field!: new_origin[..N] = origin.segments; new_origin[N] = identifier
FieldMacroOriginPrepends(o, name) == Some(<<name>> \o OriginSegments(o))
FieldMacroOrigin(o, name) == Some(Append(OriginSegments(o), name))

\* emit_foreign_field_function: N + 2 segments, a "." at N when N > 0 and
\* the segment before is not one, the identifier at N + 1
ForeignFieldOrigin(o, name) ==
  LET segs == OriginSegments(o)
      n == Len(segs)
  IN Some(segs \o <<IF n > 0 /\ segs[n] # DOT THEN DOT ELSE EMPTY, name>>)

\* FieldRelation { name, foreign_type, alias, relation_type }
FieldRelation(name, foreign_type, alias, relation_type) ==
  [name |-> name, foreign_type |-> foreign_type, alias |-> alias,
   relation_type |-> relation_type]

rel_manage == <<"m", "a", "n", "a", "g", "e">>
alias_managed_projects ==
  <<"m", "a", "n", "a", "g", "e", "d", "_", "p", "r", "o", "j", "e", "c", "t", "s">>
alias_authors == <<"a", "u", "t", "h", "o", "r", "s">>

Relations(m) ==
  CASE m = "Account" ->
         {FieldRelation(rel_manage, "Project", alias_managed_projects, "OutgoingEdge")}
    [] m = "Project" ->
         {FieldRelation(rel_manage, "Account", alias_authors, "IncomingEdge")}
    [] OTHER -> {}

\* format!("{}", self.foreign_type)
TypeName(m) ==
  CASE m = "Account" -> <<"A", "c", "c", "o", "u", "n", "t">>
    [] m = "Project" -> <<"P", "r", "o", "j", "e", "c", "t">>
    [] m = "File" -> <<"F", "i", "l", "e">>
    [] m = "User" -> <<"U", "s", "e", "r">>

OUTGOING == <<"-", ">">>
INCOMING == <<"<", "-">>

EdgeAlwaysOutgoing(r) == OUTGOING
edge(r) ==
  IF r.relation_type = "OutgoingEdge" THEN OUTGOING ELSE INCOMING

field_type(r) ==
  IF r.relation_type = "OutgoingEdge" THEN "Relation" ELSE "ForeignRelation"

\* format!("{}{}{}", self.name, self.edge(), self.foreign_type)
name_str(r) == r.name \o edge(r) \o TypeName(r.foreign_type)

\* emit_initialization / emit_initialization_with_origin: the struct field
\* named alias and the SchemaField it is initialised with
RelationInitialization(r, o) ==
  [accessor |-> r.alias,
   field |-> [identifier |-> name_str(r), field_type |-> field_type(r),
              origin_holder |-> o]]

\* FieldRelation::emit_foreign_field_function: N + 2 segments, the edge at
\* N, the relation field's identifier at N + 1
RelationFieldOrigin(o, r) ==
  Some(OriginSegments(o) \o <<edge(r), RelationInitialization(r, o).field.identifier>>)

\* Display of a SchemaField whose type is Relation or ForeignRelation: the
\* arrow of its type, then the identifier
DisplayRelationField(f) ==
  (IF f.origin_holder # None THEN DisplayOriginHolder(f.origin_holder[1]) ELSE <<>>)
    \o (IF f.field_type = "Relation" THEN OUTGOING ELSE INCOMING)
    \o f.identifier

PathIdle ==
  /\ generator = "macro_rules"
  /\ table = "File"
  /\ origin = None
  /\ idents = <<>>
  /\ schema_field = None
  /\ rendered = None

(***************************************************************************)
(* The QueryBuilder state machine                                          *)
(***************************************************************************)
X == <<"x">>
Args == {EMPTY, X}
ManyArgs == UNION {[1..n -> Args] : n \in 0..MaxMany}
SimpleCalls ==
  {[op |-> "raw", a |-> a] : a \in Args} \cup {[op |-> "or", a |-> X]}
Actions == UNION {[1..n -> SimpleCalls] : n \in 0..MaxAction}
\* |query| query.if_then(c, f)
NestedIfThens ==
  {<<[op |-> "if_then", c |-> c, f |-> f]>> : c \in BOOLEAN, f \in Actions}
\* |query| query.and_group(a, |query| ..).raw(b), nested MaxNesting deep
MaxNesting == 2
RECURSIVE GroupActions(_)
GroupActions(depth) ==
  IF depth = 0 THEN {<<>>, <<[op |-> "raw", a |-> X]>>}
  ELSE GroupActions(depth - 1) \cup
       {<<[op |-> "and_group", a |-> a, f |-> g]>> \o post :
          a \in Args, g \in GroupActions(depth - 1),
          post \in {<<>>, <<[op |-> "raw", a |-> X]>>}}
ParamKeys == {X}
\* |query| query.raw(a).param(k, v).hold(s)
RegisteringActions ==
  {f \o <<[op |-> "param", k |-> X, v |-> <<"y">>], [op |-> "hold", s |-> X]>> :
     f \in Actions}
ParamValues == {<<"y">>}
HoldStrings == {X}

CurQB == [segments |-> segments, parameters |-> parameters, storage |-> storage]

QBIdle ==
  /\ segments = <<>>
  /\ parameters = {}
  /\ storage = <<>>
  /\ qbpc = "open"
  /\ output = <<>>
  /\ pending = {}
  /\ cur = None

\* A call on the open builder, which becomes the builder the call returns.
Call(qb) ==
  /\ qbpc = "open"
  /\ Len(qb.segments) <= MaxSegments
  /\ segments' = qb.segments
  /\ parameters' = qb.parameters
  /\ storage' = qb.storage
  /\ UNCHANGED <<qbpc, output, pending, cur>>
  /\ UNCHANGED notQB

QB_create(node) == Call(create(CurQB, node))
QB_update(node) == Call(update(CurQB, node))
QB_select(node) == Call(select(CurQB, node))
QB_delete(node) == Call(delete(CurQB, node))
QB_relate(node) == Call(relate(CurQB, node))
QB_content(node) == Call(content(CurQB, node))
QB_from(node) == Call(from(CurQB, node))
QB_also(node) == Call(also(CurQB, node))
QB_filter(node) == Call(filter(CurQB, node))
QB_and_where(node) == Call(and_where(CurQB, node))
QB_or(node) == Call(or(CurQB, node))
QB_and(node) == Call(and(CurQB, node))
QB_set(node) == Call(set(CurQB, node))
QB_fetch(node) == Call(fetch(CurQB, node))
QB_group_by(node) == Call(group_by(CurQB, node))
QB_order_by_asc(node) == Call(order_by_asc(CurQB, node))
QB_order_by_desc(node) == Call(order_by_desc(CurQB, node))
QB_limit(node) == Call(limit(CurQB, node))
QB_start_at(node) == Call(start_at(CurQB, node))
QB_raw(text) == Call(raw(CurQB, text))
QB_select_many(nodes) == Call(select_many(CurQB, nodes))
QB_set_many(nodes) == Call(set_many(CurQB, nodes))
QB_fetch_many(nodes) == Call(fetch_many(CurQB, nodes))
QB_group_by_many(nodes) == Call(group_by_many(CurQB, nodes))
QB_order_by_asc_many(nodes) == Call(order_by_asc_many(CurQB, nodes))
QB_order_by_desc_many(nodes) == Call(order_by_desc_many(CurQB, nodes))
QB_if_then(condition, action) == Call(if_then(CurQB, condition, action))
QB_and_group(first, action) == Call(and_group(CurQB, first, action))
QB_commas(action) == Call(commas(CurQB, action))
QB_param(k, v) == Call(param(CurQB, k, v))
QB_hold(string) == Len(storage) < 1 /\ Call(hold(CurQB, string))

\* build(self): the join, then for each parameter, in the map's iteration
\* order, the loop `while let Some(index) = output.find(key)`.
QB_build ==
  /\ qbpc = "open"
  /\ qbpc' = "replace"
  /\ output' = BuildJoin(segments)
  /\ pending' = parameters
  /\ cur' = None
  /\ UNCHANGED <<segments, parameters, storage>>
  /\ UNCHANGED notQB

QB_build_next_key ==
  /\ qbpc = "replace" /\ cur = None
  /\ \E p \in pending :
       /\ cur' = Some(p)
       /\ pending' = pending \ {p}
  /\ UNCHANGED <<segments, parameters, storage, qbpc, output>>
  /\ UNCHANGED notQB

\* The loop has no bound of its own: a value that contains its key is found
\* again after each replacement. The model follows it until the output has
\* grown by MaxGrowth characters.
MaxGrowth == 2

QB_build_replace ==
  /\ qbpc = "replace" /\ cur # None
  /\ Find(output, cur[1][1]) # 0
  /\ Len(output) - Len(cur[1][1]) + Len(cur[1][2])
       <= Len(BuildJoin(segments)) + MaxGrowth
  /\ output' = ReplaceRange(output, Find(output, cur[1][1]),
                            Len(cur[1][1]), cur[1][2])
  /\ UNCHANGED <<segments, parameters, storage, qbpc, pending, cur>>
  /\ UNCHANGED notQB

QB_build_key_done ==
  /\ qbpc = "replace" /\ cur # None
  /\ Find(output, cur[1][1]) = 0
  /\ cur' = None
  /\ UNCHANGED <<segments, parameters, storage, qbpc, output, pending>>
  /\ UNCHANGED notQB

QB_build_return ==
  /\ qbpc = "replace" /\ cur = None /\ pending = {}
  /\ qbpc' = "built"
  /\ UNCHANGED <<segments, parameters, storage, output, pending, cur>>
  /\ UNCHANGED notQB

QBInit == FKIdle /\ QBIdle /\ InjIdle /\ PathIdle

QBNext ==
  \/ \E a \in Args : QB_create(a)
  \/ \E a \in Args : QB_update(a)
  \/ \E a \in Args : QB_select(a)
  \/ \E a \in Args : QB_delete(a)
  \/ \E a \in Args : QB_relate(a)
  \/ \E a \in Args : QB_content(a)
  \/ \E a \in Args : QB_from(a)
  \/ \E a \in Args : QB_also(a)
  \/ \E a \in Args : QB_filter(a)
  \/ \E a \in Args : QB_and_where(a)
  \/ \E a \in Args : QB_or(a)
  \/ \E a \in Args : QB_and(a)
  \/ \E a \in Args : QB_set(a)
  \/ \E a \in Args : QB_fetch(a)
  \/ \E a \in Args : QB_group_by(a)
  \/ \E a \in Args : QB_order_by_asc(a)
  \/ \E a \in Args : QB_order_by_desc(a)
  \/ \E a \in Args : QB_limit(a)
  \/ \E a \in Args : QB_start_at(a)
  \/ \E a \in Args : QB_raw(a)
  \/ \E n \in ManyArgs : QB_select_many(n)
  \/ \E n \in ManyArgs : QB_set_many(n)
  \/ \E n \in ManyArgs : QB_fetch_many(n)
  \/ \E n \in ManyArgs : QB_group_by_many(n)
  \/ \E n \in ManyArgs : QB_order_by_asc_many(n)
  \/ \E n \in ManyArgs : QB_order_by_desc_many(n)
  \/ \E c \in BOOLEAN, f \in Actions \cup NestedIfThens : QB_if_then(c, f)
  \/ \E a \in Args, f \in Actions : QB_and_group(a, f)
  \/ \E f \in Actions \cup RegisteringActions : QB_commas(f)
  \/ \E k \in ParamKeys, v \in ParamValues : QB_param(k, v)
  \/ \E s \in HoldStrings : QB_hold(s)
  \/ QB_build
  \/ QB_build_next_key
  \/ QB_build_replace
  \/ QB_build_key_done
  \/ QB_build_return

SpecQB == QBInit /\ [][QBNext]_vars

(***************************************************************************)
(* build() on builders whose parameters hold several keys, and values that *)
(* contain keys: the builders that raw and param calls leave behind.       *)
(***************************************************************************)
BuildKeys == {<<"x">>, <<"y">>}
BuildValues == {<<"y">>, <<"z">>, <<"x", "x">>}
BuildTexts == {<<"x">>, <<"y">>, <<"a", "x">>}
BuildSegments == UNION {[1..n -> BuildTexts] : n \in 1..2}
BuildParameters ==
  {ps \in SUBSET (BuildKeys \X BuildValues) :
     \A p, q \in ps : p[1] = q[1] => p = q}

BuildInit ==
  /\ FKIdle
  /\ InjIdle
  /\ PathIdle
  /\ segments \in BuildSegments
  /\ parameters \in BuildParameters
  /\ storage = <<>>
  /\ qbpc = "open"
  /\ output = <<>>
  /\ pending = {}
  /\ cur = None

BuildNext ==
  \/ QB_build
  \/ QB_build_next_key
  \/ QB_build_replace
  \/ QB_build_key_done
  \/ QB_build_return

SpecBuild == BuildInit /\ [][BuildNext]_vars

(***************************************************************************)
(* build() run to its end: param() accepts any key and any value, among    *)
(* them the empty key, a value equal to its key and a value that contains  *)
(* its key. build is sequential code, so a step that can be taken is       *)
(* taken: weak fairness on its steps.                                       *)
(***************************************************************************)
LoopKeys == {EMPTY, <<"x">>, <<"y">>}
LoopValues == {<<"x">>, <<"y">>, <<"z">>, <<"x", "x">>}
LoopSegments == UNION {[1..n -> {<<"x">>, <<"y">>}] : n \in 1..2}
LoopParameters ==
  {ps \in SUBSET (LoopKeys \X LoopValues) :
     \A p, q \in ps : p[1] = q[1] => p = q}

LoopInit ==
  /\ FKIdle
  /\ InjIdle
  /\ PathIdle
  /\ segments \in LoopSegments
  /\ parameters \in LoopParameters
  /\ storage = <<>>
  /\ qbpc = "open"
  /\ output = <<>>
  /\ pending = {}
  /\ cur = None

SpecLoop == LoopInit /\ [][BuildNext]_vars /\ WF_vars(BuildNext)

(***************************************************************************)
(* Queries made of raw fragments and and_group calls whose closures nest   *)
(* further and_group calls, then built.                                    *)
(***************************************************************************)
MaxGroupSegments == 9

GroupCall(qb) ==
  /\ qbpc = "open"
  /\ Len(qb.segments) <= MaxGroupSegments
  /\ segments' = qb.segments
  /\ parameters' = qb.parameters
  /\ storage' = qb.storage
  /\ UNCHANGED <<qbpc, output, pending, cur>>
  /\ UNCHANGED notQB

GroupNext ==
  \/ \E a \in Args \ {EMPTY} : GroupCall(raw(CurQB, a))
  \/ \E a \in Args, f \in GroupActions(MaxNesting) :
       GroupCall(and_group(CurQB, a, f))
  \/ QB_build
  \/ QB_build_return

SpecGroup == QBInit /\ [][GroupNext]_vars



FKInit ==
  /\ QBIdle
  /\ InjIdle
  /\ PathIdle
  /\ inner = Unloaded
  /\ allow_value_serialize = <<>>
  /\ fkOp = "default"
  /\ fkArg = None
  /\ fkRet = None

set_value(v) ==
  /\ UNCHANGED notFK
  /\ inner' = Loaded(v)
  /\ fkOp' = "set_value" /\ fkArg' = Some(v) /\ fkRet' = None
  /\ UNCHANGED allow_value_serialize

set_key(k) ==
  /\ UNCHANGED notFK
  /\ inner' = Key(k)
  /\ fkOp' = "set_key" /\ fkArg' = Some(k) /\ fkRet' = None
  /\ UNCHANGED allow_value_serialize

unload ==
  /\ UNCHANGED notFK
  /\ inner' = Unloaded
  /\ fkOp' = "unload" /\ fkArg' = None /\ fkRet' = None
  /\ UNCHANGED allow_value_serialize

TakeValueAlwaysUnloads ==
  /\ UNCHANGED notFK
  /\ fkRet' = value(inner)
  /\ inner' = Unloaded
  /\ fkOp' = "take_value" /\ fkArg' = None
  /\ UNCHANGED allow_value_serialize

take_value ==
  /\ UNCHANGED notFK
  /\ IF ~is_loaded(inner)
     THEN /\ fkRet' = None
          /\ UNCHANGED inner
     ELSE /\ fkRet' = value(inner)
          /\ inner' = Unloaded
  /\ fkOp' = "take_value" /\ fkArg' = None
  /\ UNCHANGED allow_value_serialize

take_key ==
  /\ UNCHANGED notFK
  /\ IF ~is_key(inner)
     THEN /\ fkRet' = None
          /\ UNCHANGED inner
     ELSE /\ fkRet' = key(inner)
          /\ inner' = Unloaded
  /\ fkOp' = "take_key" /\ fkArg' = None
  /\ UNCHANGED allow_value_serialize

as_key ==
  /\ UNCHANGED notFK
  /\ IF value(inner) # None
     THEN IF into_key(value(inner)[1]).ok
          THEN /\ inner' = Key(into_key(value(inner)[1]).val)
               /\ fkRet' = Ok(None)
          ELSE /\ UNCHANGED inner
               /\ fkRet' = Err(into_key(value(inner)[1]).err)
     ELSE /\ UNCHANGED inner
          /\ fkRet' = Ok(None)
  /\ fkOp' = "as_key" /\ fkArg' = None
  /\ UNCHANGED allow_value_serialize

AllowValueSerializeToggles ==
  /\ UNCHANGED notFK
  /\ allow_value_serialize' =
       IF allow_value_serialize = <<>> THEN <<TRUE>> ELSE <<>>
  /\ fkOp' = "allow_value_serialize" /\ fkArg' = None /\ fkRet' = None
  /\ UNCHANGED inner

\* OnceCell::set(true): an Err when already set, which is ignored.
AllowValueSerialize ==
  /\ UNCHANGED notFK
  /\ allow_value_serialize' =
       IF allow_value_serialize = <<>> THEN <<TRUE>> ELSE allow_value_serialize
  /\ fkOp' = "allow_value_serialize" /\ fkArg' = None /\ fkRet' = None
  /\ UNCHANGED inner

disallow_value_serialize ==
  /\ UNCHANGED notFK
  /\ allow_value_serialize' = <<>>
  /\ fkOp' = "disallow_value_serialize" /\ fkArg' = None /\ fkRet' = None
  /\ UNCHANGED inner

serialize ==
  /\ UNCHANGED notFK
  /\ fkRet' = SerializeForeignKey(inner, allow_value_serialize)
  /\ fkOp' = "serialize" /\ fkArg' = None
  /\ UNCHANGED <<inner, allow_value_serialize>>

\* #[derive(Deserialize)] #[serde(from = "LoadedValue<V, K>")]: the input is
\* deserialized as a LoadedValue and converted with From<LoadedValue>, which
\* takes the flag from Default; an error leaves no ForeignKey behind, and the
\* model keeps the one it had.
deserialize(j) ==
  /\ UNCHANGED notFK
  /\ IF DeserializeLoadedValue(j).ok
     THEN /\ inner' = DeserializeLoadedValue(j).val
          /\ allow_value_serialize' = <<>>
          /\ fkRet' = Ok(None)
     ELSE /\ UNCHANGED <<inner, allow_value_serialize>>
          /\ fkRet' = Err(DeserializeLoadedValue(j).err)
  /\ fkOp' = "deserialize" /\ fkArg' = Some(j)

FKNext ==
  \/ \E v \in Account : set_value(v)
  \/ \E k \in Keys : set_key(k)
  \/ unload
  \/ take_value
  \/ take_key
  \/ as_key
  \/ AllowValueSerialize
  \/ disallow_value_serialize
  \/ serialize
  \/ \E j \in JsonInputs : deserialize(j)

SpecFK == FKInit /\ [][FKNext]_vars

(***************************************************************************)
(* ForeignKey<Vec<V>, Vec<K>>: the same struct holding vectors, with push  *)
(* and pop.                                                                *)
(***************************************************************************)
MaxForeignVec == 2

RECURSIVE SeqsUpTo(_, _)
SeqsUpTo(S, n) ==
  IF n = 0 THEN {<<>>}
  ELSE SeqsUpTo(S, n - 1)
         \cup {Append(q, x) : q \in {r \in SeqsUpTo(S, n - 1) : Len(r) = n - 1}, x \in S}

AccountVecs == SeqsUpTo(Account, MaxForeignVec)
KeyVecs == SeqsUpTo(Keys, MaxForeignVec)

\* impl IntoKey<Vec<K>> for Vec<V>: collect() into a Result stops at the
\* first Err.
RECURSIVE vec_into_key(_)
vec_into_key(vs) ==
  IF vs = <<>> THEN Ok(<<>>)
  ELSE IF ~into_key(Head(vs)).ok THEN Err(into_key(Head(vs)).err)
  ELSE IF ~vec_into_key(Tail(vs)).ok THEN vec_into_key(Tail(vs))
  ELSE Ok(<<into_key(Head(vs)).val>> \o vec_into_key(Tail(vs)).val)

\* Vec::pop
VecPop(xs) == IF xs = <<>> THEN None ELSE Some(xs[Len(xs)])
VecPopped(xs) == IF xs = <<>> THEN xs ELSE SubSeq(xs, 1, Len(xs) - 1)

\* ForeignKey::as_key where V = Vec<Account>
vec_as_key ==
  /\ UNCHANGED notFK
  /\ IF value(inner) # None
     THEN IF vec_into_key(value(inner)[1]).ok
          THEN /\ inner' = Key(vec_into_key(value(inner)[1]).val)
               /\ fkRet' = Ok(None)
          ELSE /\ UNCHANGED inner
               /\ fkRet' = Err(vec_into_key(value(inner)[1]).err)
     ELSE /\ UNCHANGED inner
          /\ fkRet' = Ok(None)
  /\ fkOp' = "as_key" /\ fkArg' = None
  /\ UNCHANGED allow_value_serialize

push(v) ==
  /\ UNCHANGED notFK
  /\ (CASE inner.tag = "Unloaded" -> 0
         [] inner.tag = "Key" -> Len(inner.k)
         [] inner.tag = "Loaded" -> Len(inner.v)) < MaxForeignVec
  /\ IF is_unloaded(inner)
     THEN /\ inner' = Loaded(<<v>>)
          /\ fkRet' = Ok(None)
     ELSE IF key(inner) # None
     THEN IF into_key(v).ok
          THEN /\ inner' = Key(Append(inner.k, into_key(v).val))
               /\ fkRet' = Ok(None)
          ELSE /\ UNCHANGED inner
               /\ fkRet' = Err(into_key(v).err)
     ELSE /\ inner' = Loaded(Append(inner.v, v))
          /\ fkRet' = Ok(None)
  /\ fkOp' = "push" /\ fkArg' = Some(v)
  /\ UNCHANGED allow_value_serialize

\* In the Loaded state the value is popped before it is turned into a key.
pop ==
  /\ UNCHANGED notFK
  /\ IF is_unloaded(inner)
     THEN /\ UNCHANGED inner
          /\ fkRet' = Ok(None)
     ELSE IF key(inner) # None
     THEN /\ inner' = Key(VecPopped(inner.k))
          /\ fkRet' = Ok(VecPop(inner.k))
     ELSE /\ inner' = Loaded(VecPopped(inner.v))
          /\ fkRet' =
               IF VecPop(inner.v) = None THEN Ok(None)
               ELSE IF into_key(VecPop(inner.v)[1]).ok
               THEN Ok(Some(into_key(VecPop(inner.v)[1]).val))
               ELSE Err(into_key(VecPop(inner.v)[1]).err)
  /\ fkOp' = "pop" /\ fkArg' = None
  /\ UNCHANGED allow_value_serialize

FVNext ==
  \/ \E vs \in AccountVecs : set_value(vs)
  \/ \E ks \in KeyVecs : set_key(ks)
  \/ unload
  \/ take_value
  \/ take_key
  \/ vec_as_key
  \/ \E v \in Account : push(v)
  \/ pop
  \/ AllowValueSerialize
  \/ disallow_value_serialize

SpecFV == FKInit /\ [][FVNext]_vars

(***************************************************************************)
(* C1: in every reachable state of a ForeignKey, serialization emits the   *)
(* key k in state Key(k), null in state Unloaded, and in state Loaded(v)   *)
(* the key into_key(v) and never the full object, unless value             *)
(* serialization was allowed, and then the full value v.                   *)
(***************************************************************************)
C1_SerializeContract ==
  fkOp = "serialize" =>
    /\ inner.tag = "Key" => fkRet = Ok(JStr(inner.k))
    /\ inner.tag = "Unloaded" => fkRet = Ok(JNull)
    /\ (inner.tag = "Loaded" /\ allow_value_serialize = <<>>) =>
         /\ fkRet # Ok(SerializeAccount(inner.v))
         /\ inner.v.id # None => fkRet = Ok(JStr(inner.v.id[1]))
         /\ fkRet.ok => fkRet.val.t = "str"
    /\ (inner.tag = "Loaded" /\ allow_value_serialize = <<TRUE>>) =>
         fkRet = Ok(SerializeAccount(inner.v))

C1_Witness ==
  /\ fkOp = "serialize"
  /\ inner.tag = "Loaded"
  /\ inner.v.id # None
  /\ allow_value_serialize = <<TRUE>>
  /\ fkRet = Ok(SerializeAccount(inner.v))

IsPrefix(s, t) == Len(s) <= Len(t) /\ SubSeq(t, 1, Len(s)) = s

\* Where segment i starts in a text that holds the segments one space apart.
RECURSIVE SegmentStart(_, _)
SegmentStart(segs, i) ==
  IF i = 1 THEN 1 ELSE SegmentStart(segs, i - 1) + Len(segs[i - 1]) + 1

\* text is exactly the segments in order with one space between neighbours:
\* nothing before the first, nothing after the last.
JoinedBySingleSpaces(segs, text) ==
  IF segs = <<>> THEN text = <<>>
  ELSE
    /\ Len(text) = SegmentStart(segs, Len(segs)) + Len(segs[Len(segs)]) - 1
    /\ \A i \in 1..Len(segs) :
         SubSeq(text, SegmentStart(segs, i),
                SegmentStart(segs, i) + Len(segs[i]) - 1) = segs[i]
    /\ \A i \in 1..(Len(segs) - 1) :
         text[SegmentStart(segs, i + 1) - 1] = " "

\* build() has just joined the segments and replaced no parameter yet.
JustJoined == qbpc = "replace" /\ cur = None /\ pending = parameters

(***************************************************************************)
(* C5: after any sequence of QueryBuilder operations no stored segment is  *)
(* the empty string; every operation only appends to the stored segments,  *)
(* so they are stored in the order of the calls; and the text build()      *)
(* joins is the segments in that order with exactly one space between      *)
(* consecutive segments, none leading, trailing or doubled.                *)
(***************************************************************************)
C5_SegmentsAndJoin ==
  /\ [](\A i \in DOMAIN segments : segments[i] # EMPTY)
  /\ [][IsPrefix(segments, segments')]_vars
  /\ [](JustJoined => JoinedBySingleSpaces(segments, output))

C5_Witness ==
  /\ JustJoined
  /\ Len(segments) = 3
  /\ segments[1] = kwSELECT
  /\ output = kwSELECT \o SPACE \o segments[2] \o SPACE \o segments[3]


(***************************************************************************)
(* query(&component) and bindings(component) over a bounded universe of    *)
(* components                                                              *)
(***************************************************************************)
KeyNames == {<<"a">>, <<"b">>}
SerializeValues == {JNum(1), JNum(2), Unserializable}
SqlTexts == {<<"5">>, <<"$", "c">>}
RangeEnds == {0, 10, 25, 35, U64 - 1}

Pairs == {Pair(k, v) : k \in KeyNames, v \in SerializeValues}
PairSqls == {PairSql(k, t) : k \in KeyNames, t \in SqlTexts}

\* serde_json objects, as their (key, value) entries in iteration order
JsonFields ==
  {f \in UNION {[1..n -> KeyNames \X {JNum(1), JNum(2)}] : n \in 0..MaxFields} :
     \A i, j \in DOMAIN f : i # j => f[i][1] # f[j][1]}
JsonValues == {JNum(1)} \cup {JObj(f) : f \in JsonFields}

SlicePairs == {Pair(<<"a">>, JNum(1)), Pair(<<"a">>, JNum(2)),
               Pair(<<"b">>, Unserializable)}
Slices == {Slice(ps) : ps \in UNION {[1..n -> SlicePairs] : n \in 0..2}}

Comparisons ==
  Pairs \cup PairSqls \cup {Json(v) : v \in JsonValues} \cup Slices
  \cup {Equal(x) : x \in Pairs}
  \cup {Equal(Json(v)) : v \in JsonValues}
  \cup {Equal(x) : x \in Slices}

Atoms == {Pair(<<"a">>, JNum(1)), Pair(<<"a">>, JNum(2)),
          Pair(<<"b">>, Unserializable), PairSql(<<"b">>, <<"5">>),
          Unit, OptNone}
TuplesOf(S, lens) == {Tuple(items) : items \in UNION {[1..n -> S] : n \in lens}}
Tuples == TuplesOf(Atoms, 2..4)
Vecs == {Vec(items) : items \in UNION {[1..n -> SlicePairs] : n \in 0..MaxVec}}

Clauses == {Pair(<<"a">>, JNum(1)), Pair(<<"b">>, JNum(2)),
            PairSql(<<"b">>, <<"5">>)}
Scopes == {Or(t) : t \in TuplesOf(Clauses, 2..3)}
            \cup {And(t) : t \in TuplesOf(Clauses, 2..2)}
Conditions ==
  Comparisons \cup TuplesOf(Atoms, 2..3) \cup Scopes
  \cup {Tuple(<<sc, x>>) : sc \in Scopes, x \in Clauses}
  \cup {Tuple(<<x, sc>>) : sc \in Scopes, x \in Clauses}
Wheres == {Where(x) : x \in Conditions}
Sets == {Set(x) : x \in Comparisons \cup TuplesOf(Atoms, 2..3)}
Paginations == {Pagination(st, en) : st \in RangeEnds, en \in RangeEnds}

StatementParts ==
  {Select(<<"*">>), From(<<"t">>), Create(<<"t">>),
   Where(Pair(<<"a">>, JNum(1))), Set(Pair(<<"a">>, JNum(1))),
   Pagination(10, 35), Pagination(0, 25), Pagination(35, 10),
   OrStr(<<"x">>), AndStr(<<"x">>), AlsoStr(<<"x">>), Sql(<<"x">>),
   Limit(<<"5">>), OptSome(Pair(<<"b">>, JNum(2))),
   Also(Tuple(<<Sql(<<"x">>), Sql(<<"y">>)>>))}
Statements == TuplesOf(StatementParts, 2..3)

\* fragments made optional with when, and filters with an Option as a value
OptionalFragments == {when(x, cond) : x \in Clauses, cond \in BOOLEAN}
OptionalFilters ==
  {Where(Pair(k, NoneValue)) : k \in KeyNames}
    \cup {Where(Tuple(<<Pair(<<"a">>, NoneValue), x>>)) : x \in Clauses}
    \cup {Where(Tuple(<<x, Pair(<<"b">>, NoneValue)>>)) : x \in Clauses}

Components ==
  Comparisons \cup Tuples \cup Vecs \cup Wheres \cup Sets \cup Paginations
  \cup StatementParts \cup Statements \cup OptionalFragments \cup OptionalFilters

InjInit ==
  /\ FKIdle
  /\ QBIdle
  /\ PathIdle
  /\ component \in Components
  /\ overflow_checks \in BOOLEAN
  /\ queryRet = None
  /\ bindingsRet = None
  /\ PageIdle

Inj_query ==
  /\ queryRet = None
  /\ queryRet' = Some(query(component, overflow_checks))
  /\ UNCHANGED <<component, overflow_checks, bindingsRet, pageVars>>
  /\ UNCHANGED notInj

Inj_bindings ==
  /\ bindingsRet = None
  /\ bindingsRet' = Some(bindings(component))
  /\ UNCHANGED <<component, overflow_checks, queryRet, pageVars>>
  /\ UNCHANGED notInj

InjNext == Inj_query \/ Inj_bindings

SpecInj == InjInit /\ [][InjNext]_vars

(***************************************************************************)
(* Pagination::new_page(page, page_size), then limit() and start() on what *)
(* it returned, for every pair of u64 values and both build profiles.      *)
(***************************************************************************)
PageInit ==
  /\ FKIdle
  /\ QBIdle
  /\ PathIdle
  /\ component = Unit
  /\ overflow_checks \in BOOLEAN
  /\ queryRet = None
  /\ bindingsRet = None
  /\ page \in 0..(U64 - 1)
  /\ page_size \in 0..(U64 - 1)
  /\ pagination = None
  /\ limitRet = None
  /\ startRet = None

Page_new_page ==
  /\ pagination = None
  /\ pagination' = Some(new_page(page, page_size, overflow_checks))
  /\ UNCHANGED <<page, page_size, limitRet, startRet>>
  /\ UNCHANGED <<component, overflow_checks, queryRet, bindingsRet>>
  /\ UNCHANGED notInj

Page_limit ==
  /\ pagination # None /\ pagination[1].ok
  /\ limitRet = None
  /\ limitRet' = Some(limit_of(pagination[1].val, overflow_checks))
  /\ UNCHANGED <<page, page_size, pagination, startRet>>
  /\ UNCHANGED <<component, overflow_checks, queryRet, bindingsRet>>
  /\ UNCHANGED notInj

Page_start ==
  /\ pagination # None /\ pagination[1].ok
  /\ startRet = None
  /\ startRet' = Some(PaginationStart(pagination[1].val))
  /\ UNCHANGED <<page, page_size, pagination, limitRet>>
  /\ UNCHANGED <<component, overflow_checks, queryRet, bindingsRet>>
  /\ UNCHANGED notInj

PageNext == Page_new_page \/ Page_limit \/ Page_start

SpecPage == PageInit /\ [][PageNext]_vars


\* The renderings that are not empty, one space apart.
JoinNonEmpty(strs) ==
  IF strs = <<>> THEN EMPTY
  ELSE Join(SelectSeq(strs, LAMBDA x : x # EMPTY), SPACE)

\* What query returns for each item of a tuple or a sequence on its own.
OwnRenderings(items) ==
  [i \in DOMAIN items |-> query(items[i], overflow_checks).val]

(***************************************************************************)
(* C2: for every tuple of 2, 3 or 4 fragments and every sequence of        *)
(* fragments, the query rendered for the whole is each fragment's own      *)
(* rendering, in position order from the left, each separated from the     *)
(* next by a single space.                                                 *)
(***************************************************************************)
C2_InjectLeftToRight ==
  (component.c \in {"Tuple", "Vec"} /\ queryRet # None /\ queryRet[1].ok) =>
    queryRet[1].val = JoinNonEmpty(OwnRenderings(component.items))

C2_Witness ==
  /\ component.c = "Tuple"
  /\ Len(component.items) = 3
  /\ component.items[1].c = "Where"
  /\ component.items[2].c = "Pagination"
  /\ component.items[3].c = "Limit"
  /\ queryRet # None
  /\ queryRet[1].ok

(***************************************************************************)
(* C3: for every tuple of 2, 3 or 4 fragments and every sequence of        *)
(* fragments, when two fragments bind the same parameter name the map      *)
(* returned holds the binding of the later, right-hand fragment.           *)
(***************************************************************************)
C3_LaterBindingWins ==
  (component.c \in {"Tuple", "Vec"} /\ bindingsRet # None /\ bindingsRet[1].ok) =>
    \A n \in DOMAIN bindingsRet[1].val :
      LET binders == {i \in DOMAIN component.items :
                        n \in DOMAIN bindings(component.items[i]).val}
          last == CHOOSE i \in binders : \A j \in binders : j <= i
      IN bindingsRet[1].val[n] = bindings(component.items[last]).val[n]

\* The pair of fragments for which the left binding is the one that stays.
C3_Witness ==
  /\ component = Tuple(<<Pair(<<"a">>, JNum(1)), Pair(<<"a">>, JNum(2))>>)
  /\ bindingsRet = Some(Ok(Insert(EmptyMap, <<"a">>, JNum(1))))


\* The `$name` placeholders of a query text: a name runs from the character
\* after the dollar sign to the end of its space-delimited token.
TokenEnd(text, i) ==
  CHOOSE j \in i..Len(text) :
    /\ \A m \in i..j : text[m] # " "
    /\ j = Len(text) \/ text[j + 1] = " "
Placeholders(text) ==
  {SubSeq(text, i + 1, TokenEnd(text, i)) : i \in {m \in DOMAIN text : text[m] = "$"}}

\* The placeholders a caller wrote into the verbatim texts it wrapped in Sql.
VerbatimNames == UNION {Placeholders(t) : t \in SqlTexts}

\* `k = $k` and `k = text`, written out
Parameterized(k) == k \o <<" ">> \o <<"=">> \o <<" ">> \o <<"$">> \o k
Verbatim(k, text) == k \o <<" ">> \o <<"=">> \o <<" ">> \o text

\* The value of the last entry of a slice or an object that has key k.
LastValue(entries, k, KeyOf(_), ValueOf(_)) ==
  ValueOf(entries[CHOOSE i \in DOMAIN entries :
                    /\ KeyOf(entries[i]) = k
                    /\ \A j \in DOMAIN entries : KeyOf(entries[j]) = k => j <= i])

Unwrapped(inj) == IF inj.c = "Equal" THEN inj.i ELSE inj

BothReturned ==
  /\ queryRet # None /\ queryRet[1].ok
  /\ bindingsRet # None /\ bindingsRet[1].ok

(***************************************************************************)
(* C4, as the code has it: for every key/value comparison fragment (Equal, *)
(* a raw 2-tuple, a slice of pairs, a JSON object) each key k emits the    *)
(* clause `k = $k` and binds k to the serialized value, and a Sql(text)    *)
(* value emits `k = text` verbatim with no binding; every `$name`          *)
(* placeholder of the query returned for a component has a binding named   *)
(* name in the map returned for the same component, unless the caller      *)
(* wrote that placeholder in a verbatim Sql text.                          *)
(***************************************************************************)
C4_ComparisonBindings ==
  BothReturned =>
    LET q == queryRet[1].val
        map == bindingsRet[1].val
        x == Unwrapped(component)
    IN
    /\ (component.c \in {"Pair", "PairSql", "Slice", "Json", "Equal"}) =>
         /\ x.c = "Pair" =>
              /\ q = Parameterized(x.k)
              /\ DOMAIN map = {x.k}
              /\ map[x.k] = x.v
         /\ x.c = "PairSql" =>
              /\ q = Verbatim(x.k, x.text)
              /\ DOMAIN map = {}
         /\ x.c = "Slice" =>
              /\ q = JoinNonEmpty([i \in DOMAIN x.items |-> Parameterized(x.items[i].k)])
              /\ DOMAIN map = {x.items[i].k : i \in DOMAIN x.items}
              /\ \A k \in DOMAIN map :
                   map[k] = LastValue(x.items, k, LAMBDA e : e.k, LAMBDA e : e.v)
         /\ (x.c = "Json" /\ x.v.t = "obj") =>
              /\ q = JoinNonEmpty([i \in DOMAIN x.v.f |-> Parameterized(x.v.f[i][1])])
              /\ DOMAIN map = {x.v.f[i][1] : i \in DOMAIN x.v.f}
              /\ \A k \in DOMAIN map :
                   map[k] = LastValue(x.v.f, k, LAMBDA e : e[1], LAMBDA e : e[2])
    /\ \A n \in Placeholders(q) : n \in DOMAIN map \/ n \in VerbatimNames

C4_Witness ==
  /\ BothReturned
  /\ component.c = "Where"
  /\ component.i.c = "Tuple"
  /\ \E i \in DOMAIN component.i.items : component.i.items[i].c = "PairSql"
  /\ <<"a">> \in Placeholders(queryRet[1].val)
  /\ <<"a">> \in DOMAIN bindingsRet[1].val

(***************************************************************************)
(* C4, as stated: every `$name` placeholder that appears in the query      *)
(* returned for a component has a binding named name in the map returned   *)
(* for the same component.                                                 *)
(***************************************************************************)
C4_EveryPlaceholderBound ==
  BothReturned =>
    \A n \in Placeholders(queryRet[1].val) : n \in DOMAIN bindingsRet[1].val

\* A number in decimal, with its sign
Decimal(n) == IF n < 0 THEN <<"-">> \o to_string(0 - n) ELSE to_string(n)

(***************************************************************************)
(* C7: for every range start..end of unsigned integers, the Pagination     *)
(* fragment emits `LIMIT (end - start)` always, followed by                *)
(* `START AT start` exactly when start > 0.                                *)
(***************************************************************************)
C7_PaginationEveryRange ==
  (component.c = "Pagination" /\ queryRet # None) =>
    /\ queryRet[1].ok
    /\ queryRet[1].val =
         IF component.start > 0
         THEN kwLIMIT \o SPACE \o Decimal(component.end - component.start)
                \o SPACE \o kwSTARTAT \o SPACE \o Decimal(component.start)
         ELSE kwLIMIT \o SPACE \o Decimal(component.end - component.start)

\* The reversed range 35..10 under overflow checks: query does not return.
C7_Witness ==
  /\ component = Pagination(35, 10)
  /\ overflow_checks
  /\ queryRet = Some(Panicked)


\* A comparison: one key against a placeholder or a verbatim text.
IsClause(x) == x.c \in {"Pair", "PairSql"}
ClauseText(x) ==
  IF x.c = "Pair" THEN Parameterized(x.k) ELSE Verbatim(x.k, x.text)

\* An inner Or or And around a tuple of comparisons.
IsScope(x) ==
  /\ x.c \in {"Or", "And"}
  /\ x.i.c = "Tuple"
  /\ \A i \in DOMAIN x.i.items : IsClause(x.i.items[i])

IsEmptyFragment(x) == x = Unit \/ x = OptNone

JoinWith(strs, joiner) == Join(strs, SPACE \o joiner \o SPACE)

\* A condition of a Where: a comparison, or the comparisons of a scope with
\* the scope's own joiner between them.
ConditionText(x) ==
  IF IsClause(x) THEN ClauseText(x)
  ELSE JoinWith([i \in DOMAIN x.i.items |-> ClauseText(x.i.items[i])],
                IF x.c = "Or" THEN kwOR ELSE kwAND)

NonEmptyItems(items) == SelectSeq(items, LAMBDA x : ~IsEmptyFragment(x))

(***************************************************************************)
(* C8: a Where fragment holding n >= 1 comparisons emits WHERE followed by *)
(* the n comparisons with AND between each consecutive pair, none before   *)
(* the first or after the last; an inner Or or And fragment has its own    *)
(* joiner between the comparisons inside its scope, and only there.        *)
(***************************************************************************)
C8_WhereJoiners ==
  (component.c = "Where" /\ queryRet # None) =>
    LET x == component.i IN
    /\ (IsClause(x) \/ IsScope(x)) =>
         queryRet[1] = Ok(kwWHERE \o SPACE \o ConditionText(x))
    /\ (/\ x.c = "Tuple"
        /\ \A i \in DOMAIN x.items :
             IsClause(x.items[i]) \/ IsScope(x.items[i]) \/ IsEmptyFragment(x.items[i])
        /\ NonEmptyItems(x.items) # <<>>) =>
         queryRet[1] =
           Ok(kwWHERE \o SPACE \o
              JoinWith([i \in DOMAIN NonEmptyItems(x.items) |->
                          ConditionText(NonEmptyItems(x.items)[i])], kwAND))

C8_Witness ==
  /\ component.c = "Where"
  /\ component.i.c = "Tuple"
  /\ Len(component.i.items) = 2
  /\ component.i.items[1].c = "Or"
  /\ Len(component.i.items[1].i.items) = 3
  /\ IsClause(component.i.items[2])
  /\ queryRet # None
  /\ queryRet[1].ok

\* The assignment clauses of what a Set wraps, in order.
AssignmentClauses(x) ==
  CASE IsClause(x) -> <<ClauseText(x)>>
    [] x.c = "Slice" -> [i \in DOMAIN x.items |-> ClauseText(x.items[i])]
    [] x.c = "Json" /\ x.v.t = "obj" ->
         [i \in DOMAIN x.v.f |-> Parameterized(x.v.f[i][1])]
    [] x.c = "Tuple" ->
         [i \in DOMAIN NonEmptyItems(x.items) |->
            ClauseText(NonEmptyItems(x.items)[i])]
    [] OTHER -> <<>>

CountOf(text, ch) == Cardinality({i \in DOMAIN text : text[i] = ch})

(***************************************************************************)
(* C9: a Set fragment whose inner fragment has n >= 1 assignment clauses   *)
(* emits SET followed by those n clauses in order with exactly n-1 commas, *)
(* one between each consecutive pair of clauses.                           *)
(***************************************************************************)
C9_SetCommas ==
  (component.c = "Set" /\ queryRet # None) =>
    LET clauses == AssignmentClauses(Unwrapped(component.i)) IN
    Len(clauses) >= 1 =>
      /\ queryRet[1] = Ok(kwSET \o SPACE \o JoinWith(clauses, COMMA))
      /\ CountOf(queryRet[1].val, ",") = Len(clauses) - 1

C9_Witness ==
  /\ component.c = "Set"
  /\ component.i.c = "Tuple"
  /\ Len(NonEmptyItems(component.i.items)) = 3
  /\ queryRet # None
  /\ queryRet[1].ok
  /\ CountOf(queryRet[1].val, ",") = 2


(***************************************************************************)
(* A chain of accesses from a model constant: foreign-node traversals,     *)
(* then a column, then to_string().                                        *)
(***************************************************************************)
PathInit ==
  /\ FKIdle
  /\ QBIdle
  /\ InjIdle
  /\ generator \in {"macro_rules", "proc_macro"}
  /\ table \in ModelNames
  /\ origin = None
  /\ idents = <<>>
  /\ schema_field = None
  /\ rendered = None

\* model.name() as schema_field! generates it
field_macro(name) ==
  /\ generator = "macro_rules"
  /\ schema_field = None
  /\ Len(idents) < MaxDepth
  /\ ForeignType(table, name) # None
  /\ origin' = FieldMacroOrigin(origin, name)
  /\ table' = ForeignType(table, name)[1]
  /\ idents' = Append(idents, name)
  /\ UNCHANGED <<generator, schema_field, rendered>>
  /\ UNCHANGED notPath

\* model.name() as the model! procedural macro generates it
emit_foreign_field_function(name) ==
  /\ generator = "proc_macro"
  /\ schema_field = None
  /\ Len(idents) < MaxDepth
  /\ ForeignType(table, name) # None
  /\ origin' = ForeignFieldOrigin(origin, name)
  /\ table' = ForeignType(table, name)[1]
  /\ idents' = Append(idents, name)
  /\ UNCHANGED <<generator, schema_field, rendered>>
  /\ UNCHANGED notPath

\* model.name: the column's SchemaField, built by new() or with_origin()
column(name) ==
  /\ schema_field = None
  /\ name \in Columns(table)
  /\ schema_field' = Some(SchemaField(name, origin))
  /\ UNCHANGED <<generator, table, origin, idents, rendered>>
  /\ UNCHANGED notPath

\* model.alias() as the model! procedural macro generates it for a relation
relation_foreign_field_function(r) ==
  /\ generator = "proc_macro"
  /\ schema_field = None
  /\ Len(idents) < MaxDepth
  /\ r \in Relations(table)
  /\ origin' = RelationFieldOrigin(origin, r)
  /\ table' = r.foreign_type
  /\ idents' = Append(idents, r.alias)
  /\ UNCHANGED <<generator, schema_field, rendered>>
  /\ UNCHANGED notPath

\* model.alias: the relation's SchemaField
relation_column(r) ==
  /\ generator = "proc_macro"
  /\ schema_field = None
  /\ r \in Relations(table)
  /\ schema_field' = Some(RelationInitialization(r, origin).field)
  /\ UNCHANGED <<generator, table, origin, idents, rendered>>
  /\ UNCHANGED notPath

\* schema_field.to_string()
PathToString ==
  /\ schema_field # None
  /\ rendered = None
  /\ rendered' = Some(IF "field_type" \in DOMAIN schema_field[1]
                      THEN DisplayRelationField(schema_field[1])
                      ELSE DisplaySchemaField(schema_field[1]))
  /\ UNCHANGED <<generator, table, origin, idents, schema_field>>
  /\ UNCHANGED notPath

AllColumns == UNION {Columns(m) : m \in ModelNames}
AllRelations == UNION {Relations(m) : m \in ModelNames}

PathNext ==
  \/ \E name \in AllColumns : field_macro(name)
  \/ \E name \in AllColumns : emit_foreign_field_function(name)
  \/ \E name \in AllColumns : column(name)
  \/ \E r \in AllRelations : relation_foreign_field_function(r)
  \/ \E r \in AllRelations : relation_column(r)
  \/ PathToString

SpecPath == PathInit /\ [][PathNext]_vars

(***************************************************************************)
(* C6: for every chain of n >= 0 foreign-node traversals from the root     *)
(* model constant that ends in a property, the rendered path string is     *)
(* the traversed identifiers joined by single dots, with no missing,       *)
(* leading, trailing or doubled dot.                                       *)
(***************************************************************************)
C6_PathJoinedByDots ==
  (/\ rendered # None
   /\ "field_type" \notin DOMAIN schema_field[1]
   /\ \A i \in 1..Len(idents) : idents[i] \in AllColumns) =>
    rendered[1] = Join(Append(idents, schema_field[1].identifier), DOT)

\* account.friends().handle.to_string() gives the two identifiers undivided
C6_Witness ==
  /\ generator = "macro_rules"
  /\ idents = <<col_friends>>
  /\ schema_field # None
  /\ schema_field[1].identifier = col_handle
  /\ rendered = Some(col_friends \o col_handle)

(***************************************************************************)
(* C11: deserializing a foreign-key field never fails: every input is      *)
(* tried as the value type, then as the key type, and when both fail the   *)
(* field becomes Unloaded and no deserialization error is returned.        *)
(***************************************************************************)
C11_DeserializeNeverFails ==
  fkOp = "deserialize" =>
    LET j == fkArg[1] IN
    /\ fkRet.ok
    /\ DeserializeAccount(j).ok => inner = Loaded(DeserializeAccount(j).val)
    /\ (~DeserializeAccount(j).ok /\ DeserializeKey(j).ok) =>
         inner = Key(DeserializeKey(j).val)
    /\ (~DeserializeAccount(j).ok /\ ~DeserializeKey(j).ok) => inner = Unloaded

\* An input that is neither a value, nor a key, nor null was deserialized.
C11_Witness ==
  /\ fkOp = "deserialize"
  /\ fkArg = Some(JNum(5))
  /\ ~DeserializeAccount(fkArg[1]).ok
  /\ ~DeserializeKey(fkArg[1]).ok
  /\ ~fkRet.ok

(***************************************************************************)
(* C12: serializing a ForeignKey in the Loaded(v) state, with value        *)
(* serialization not allowed, when v has no id returns a serialization     *)
(* error; it never emits an empty or null key in place of the missing one. *)
(***************************************************************************)
C12_MissingIdIsAnError ==
  (/\ fkOp = "serialize"
   /\ inner.tag = "Loaded"
   /\ FlagGet(allow_value_serialize) = FALSE
   /\ inner.v.id = None) =>
    /\ ~fkRet.ok
    /\ fkRet = Err("MissingId")

C12_Witness ==
  /\ fkOp = "serialize"
  /\ inner.tag = "Loaded"
  /\ inner.v.id = None
  /\ allow_value_serialize = <<>>
  /\ fkRet = Err("MissingId")

(***************************************************************************)
(* C13: a ForeignKey starts Unloaded, and after any sequence of set_value, *)
(* set_key, unload, take_value, take_key and as_key calls exactly one of   *)
(* is_loaded, is_key and is_unloaded holds, value() returns something if   *)
(* and only if is_loaded holds and key() returns something if and only if  *)
(* is_key holds.                                                           *)
(***************************************************************************)
ExactlyOne(a, b, c) ==
  \/ a /\ ~b /\ ~c
  \/ ~a /\ b /\ ~c
  \/ ~a /\ ~b /\ c

C13_ExactlyOneState ==
  /\ is_unloaded(inner)
  /\ [](/\ ExactlyOne(is_loaded(inner), is_key(inner), is_unloaded(inner))
        /\ (value(inner) # None) <=> is_loaded(inner)
        /\ (key(inner) # None) <=> is_key(inner))

C13_Witness ==
  /\ fkOp = "as_key"
  /\ fkRet = Ok(None)
  /\ is_key(inner) /\ ~is_loaded(inner) /\ ~is_unloaded(inner)
  /\ key(inner) # None /\ value(inner) = None

(***************************************************************************)
(* C14: take_value (take_key) returns the held value (key) and leaves the  *)
(* ForeignKey Unloaded if and only if it was in the Loaded (Key) state; in *)
(* any other state it returns nothing and leaves the state and its payload *)
(* unchanged.                                                              *)
(***************************************************************************)
C14_TakeReadsAndResets ==
  [][/\ fkOp' = "take_value" =>
          IF inner.tag = "Loaded"
          THEN fkRet' = Some(inner.v) /\ inner' = Unloaded
          ELSE fkRet' = None /\ inner' = inner
     /\ fkOp' = "take_key" =>
          IF inner.tag = "Key"
          THEN fkRet' = Some(inner.k) /\ inner' = Unloaded
          ELSE fkRet' = None /\ inner' = inner]_vars

\* take_value found a key: it returned nothing and the key is still there.
C14_Witness ==
  /\ fkOp = "take_value"
  /\ fkRet = None
  /\ inner.tag = "Key"

(***************************************************************************)
(* C15: the value-serialization flag of a ForeignKey is false when the     *)
(* ForeignKey is created, is true after allow_value_serialize (a second    *)
(* call changes nothing), keeps its value across set_value, set_key,       *)
(* unload, take_value, take_key, as_key, push and pop, and is false after  *)
(* disallow_value_serialize.                                               *)
(***************************************************************************)
InnerOperations ==
  {"set_value", "set_key", "unload", "take_value", "take_key", "as_key", "push", "pop"}

C15_FlagLifecycle ==
  /\ FlagGet(allow_value_serialize) = FALSE
  /\ [][/\ fkOp' = "allow_value_serialize" =>
             /\ FlagGet(allow_value_serialize') = TRUE
             /\ inner' = inner
             /\ FlagGet(allow_value_serialize) = TRUE =>
                  allow_value_serialize' = allow_value_serialize
        /\ fkOp' \in InnerOperations =>
             FlagGet(allow_value_serialize') = FlagGet(allow_value_serialize)
        /\ fkOp' = "disallow_value_serialize" =>
             FlagGet(allow_value_serialize') = FALSE]_vars

\* The flag was set, and a push found it set and left it set.
C15_Witness ==
  /\ fkOp = "push"
  /\ FlagGet(allow_value_serialize) = TRUE
  /\ inner.tag = "Key"
  /\ Len(inner.k) = 2

(***************************************************************************)
(* C16: bindings(component) returns an error if and only if the params of  *)
(* some fragment contained in the component, through any nesting of        *)
(* tuples, sequences, options, Where and Set, fails to serialize a value;  *)
(* the error is returned and no partial map is; and rendering the query    *)
(* text of the same component never fails.                                 *)
(***************************************************************************)
\* Some key/value fragment inside the component holds a value that
\* serde_json::to_value rejects.
RECURSIVE FailsToSerialize(_)
FailsToSerialize(inj) ==
  CASE inj.c = "Pair" -> inj.v = Unserializable
    [] inj.c \in {"Vec", "Tuple", "Slice"} ->
         \E i \in DOMAIN inj.items : FailsToSerialize(inj.items[i])
    [] inj.c = "Option" -> inj.o # None /\ FailsToSerialize(inj.o[1])
    [] inj.c \in {"Equal", "Where", "Set", "Or", "And", "Also"} ->
         FailsToSerialize(inj.i)
    [] OTHER -> FALSE

BindingsFailIffUnserializable ==
  bindingsRet # None =>
    /\ ~bindingsRet[1].ok <=> FailsToSerialize(component)
    /\ ~bindingsRet[1].ok => bindingsRet[1] = Err("serde_json::Error")
    /\ bindingsRet[1].ok => DOMAIN bindingsRet[1] = {"ok", "val"}

C16_ErrorsPropagateInjectNeverFails ==
  /\ BindingsFailIffUnserializable
  /\ queryRet # None => queryRet[1].ok

\* A component whose params succeeded and whose inject did not return.
C16_Witness ==
  /\ component.c = "Pagination"
  /\ bindingsRet # None
  /\ bindingsRet[1].ok
  /\ queryRet = Some(Panicked)

(***************************************************************************)
(* C17: an absent optional fragment is a no-op: for every builder and      *)
(* binding map, inject of None returns the builder unchanged and params of *)
(* None leaves the map unchanged; Some(x) behaves exactly as x;            *)
(* x.when(false) behaves as the absent fragment and x.when(true) as x.     *)
(***************************************************************************)
SomeBuilders ==
  {NewQB,
   select(NewQB, <<"*">>),
   param(from(select(NewQB, <<"*">>), <<"t">>), <<"k">>, <<"v">>),
   filter(NewQB, <<"x">>)}
SomeMaps ==
  {EmptyMap, Insert(EmptyMap, <<"a">>, JNum(7)),
   Insert(Insert(EmptyMap, <<"a">>, JNum(7)), <<"z">>, JNull)}

C17_AbsentIsNoOp ==
  /\ \A qb \in SomeBuilders :
       /\ Inject(OptNone, qb) = qb
       /\ Inject(OptSome(component), qb) = Inject(component, qb)
       /\ Inject(when(component, FALSE), qb) = qb
       /\ Inject(when(component, TRUE), qb) = Inject(component, qb)
  /\ \A map \in SomeMaps :
       /\ Params(OptNone, map) = Done(Ok("()"), map)
       /\ Params(OptSome(component), map) = Params(component, map)
       /\ Params(when(component, FALSE), map) = Done(Ok("()"), map)
       /\ Params(when(component, TRUE), map) = Params(component, map)
  /\ component.c = "Option" =>
       /\ queryRet # None =>
            queryRet[1] = IF component.o = None THEN Ok(EMPTY)
                          ELSE query(component.o[1], overflow_checks)
       /\ bindingsRet # None =>
            bindingsRet[1] = IF component.o = None THEN Ok(EmptyMap)
                             ELSE bindings(component.o[1])

\* x.when(false) was rendered and bound: nothing came out of either.
C17_Witness ==
  /\ component = when(Pair(<<"a">>, JNum(1)), FALSE)
  /\ queryRet = Some(Ok(EMPTY))
  /\ bindingsRet = Some(Ok(EmptyMap))

(***************************************************************************)
(* C18: in a key/value filter, a pair whose value is an Option that is     *)
(* None is ignored entirely: it contributes no clause to the query and no  *)
(* binding to the parameter map, and the remaining pairs render as if the  *)
(* pair had not been supplied.                                             *)
(***************************************************************************)
RECURSIVE HasNonePair(_)
HasNonePair(inj) ==
  CASE inj.c = "Pair" -> inj.v = NoneValue
    [] inj.c \in {"Vec", "Tuple", "Slice"} ->
         \E i \in DOMAIN inj.items : HasNonePair(inj.items[i])
    [] inj.c = "Option" -> inj.o # None /\ HasNonePair(inj.o[1])
    [] inj.c \in {"Equal", "Where", "Set", "Or", "And", "Also"} -> HasNonePair(inj.i)
    [] OTHER -> FALSE

\* The component as it would be had the None pairs not been supplied: each
\* is replaced by the unit fragment, which adds nothing.
RECURSIVE WithoutNonePairs(_)
WithoutNonePairs(inj) ==
  CASE inj.c = "Pair" -> IF inj.v = NoneValue THEN Unit ELSE inj
    [] inj.c \in {"Vec", "Tuple", "Slice"} ->
         [inj EXCEPT !.items = [i \in DOMAIN inj.items |-> WithoutNonePairs(inj.items[i])]]
    [] inj.c = "Option" ->
         IF inj.o = None THEN inj ELSE OptSome(WithoutNonePairs(inj.o[1]))
    [] inj.c \in {"Equal", "Where", "Set", "Or", "And", "Also"} ->
         [inj EXCEPT !.i = WithoutNonePairs(inj.i)]
    [] OTHER -> inj

C18_NonePairIgnored ==
  (component.c = "Where" /\ HasNonePair(component)) =>
    /\ queryRet # None =>
         queryRet[1] = query(WithoutNonePairs(component), overflow_checks)
    /\ bindingsRet # None =>
         bindingsRet[1] = bindings(WithoutNonePairs(component))

\* Where(("a", None), ("b", 2)) was rendered and bound.
C18_Witness ==
  /\ component = Where(Tuple(<<Pair(<<"a">>, NoneValue), Pair(<<"b">>, JNum(2))>>))
  /\ queryRet = Some(Ok(kwWHERE \o SPACE \o equals_parameterized(<<"a">>) \o SPACE
                        \o kwAND \o SPACE \o equals_parameterized(<<"b">>)))
  /\ bindingsRet # None
  /\ bindingsRet[1].ok
  /\ bindingsRet[1].val[<<"a">>] = JNull

(***************************************************************************)
(* C19: conditionally-empty fragments never leave a stray separator: in    *)
(* the built query every comma introduced by a many-style join or by also  *)
(* has a non-empty fragment on each side it separates (it is not the last  *)
(* segment, is not next to another comma and does not directly follow the  *)
(* head of its list), and every SET or WHERE is followed by its body, even *)
(* when supplied elements or the clause body are empty strings.            *)
(***************************************************************************)
ListHeads == {kwSELECT, kwSET, kwFETCH, kwGROUPBY, kwORDERBY}
Keywords ==
  {kwCREATE, kwUPDATE, kwSELECT, kwDELETE, kwRELATE, kwCONTENT, kwFROM, kwWHERE,
   kwOR, kwAND, kwSET, kwFETCH, kwGROUPBY, kwORDERBY, kwASC, kwDESC, kwLIMIT,
   kwSTARTAT}

StraySeparatorAt(segs, i) ==
  \/ /\ segs[i] = COMMA
     /\ \/ i = Len(segs)
        \/ segs[i + 1] = COMMA
        \/ i > 1 /\ segs[i - 1] \in ListHeads
  \/ /\ segs[i] \in {kwSET, kwWHERE}
     /\ \/ i = Len(segs)
        \/ segs[i + 1] \in Keywords \cup {COMMA}

C19_NoStraySeparator ==
  JustJoined => \A i \in DOMAIN segments : ~StraySeparatorAt(segments, i)

\* select_many(&["", "x"]) was built.
C19_Witness ==
  /\ JustJoined
  /\ segments = <<kwSELECT, COMMA, X>>
  /\ output = kwSELECT \o SPACE \o COMMA \o SPACE \o X

(***************************************************************************)
(* C20: build() returns the space-joined segments in which every           *)
(* occurrence of each key registered with param() has been replaced by     *)
(* that key's registered value, the replacement pass being applied once:   *)
(* text that is not an occurrence of a registered key, including the text  *)
(* of substituted values, is left unchanged.                               *)
(***************************************************************************)
\* One pass over the joined text. The keys of the model are single
\* characters, so an occurrence of a key is a character equal to it.
RECURSIVE SubstituteOnce(_, _)
SubstituteOnce(text, params) ==
  IF text = <<>> THEN <<>>
  ELSE (IF \E p \in params : p[1] = <<Head(text)>>
        THEN (CHOOSE p \in params : p[1] = <<Head(text)>>)[2]
        ELSE <<Head(text)>>)
       \o SubstituteOnce(Tail(text), params)

C20_SingleReplacementPass ==
  qbpc = "built" => output = SubstituteOnce(BuildJoin(segments), parameters)

\* build() returned for a builder whose value y of the key x is itself a key.
C20_Witness ==
  /\ qbpc = "built"
  /\ segments = <<<<"x">>>>
  /\ parameters = {<<<<"x">>, <<"y">>>>, <<<<"y">>, <<"z">>>>}
  /\ output = <<"z">>

(***************************************************************************)
(* C21: if_then(false, action) never runs the action and returns its       *)
(* target (a QueryBuilder's segments, registered params and held strings,  *)
(* or a node-builder String) unchanged, including when if_then calls are   *)
(* nested; if_then(true, action) returns exactly what applying the action  *)
(* to the target returns.                                                  *)
(***************************************************************************)
\* The segments a closure of raw and or calls adds, call by call.
RECURSIVE SimpleSegments(_)
SimpleSegments(f) ==
  IF f = <<>> THEN <<>>
  ELSE (CASE Head(f).op = "raw" -> IF Head(f).a = EMPTY THEN <<>> ELSE <<Head(f).a>>
          [] Head(f).op = "or" ->
               <<kwOR>> \o (IF Head(f).a = EMPTY THEN <<>> ELSE <<Head(f).a>>))
       \o SimpleSegments(Tail(f))

Ran(qb, f) == [qb EXCEPT !.segments = @ \o SimpleSegments(f)]
Nested(c, f) == <<[op |-> "if_then", c |-> c, f |-> f]>>

NodeNames == {<<"I", "S", "_", "F", "R", "I", "E", "N", "D">>, <<"M", "a", "r", "k">>}
NodeStrings == {<<>>, <<"J", "o", "h", "n">>, with(<<>>, <<"M", "a", "r", "k">>)}
NodeWith(n) == <<[op |-> "with", a |-> n]>>

C21_IfThen ==
  /\ \A f \in Actions :
       /\ if_then(CurQB, FALSE, f) = CurQB
       /\ if_then(CurQB, TRUE, f) = Ran(CurQB, f)
       /\ \A c \in BOOLEAN : if_then(CurQB, FALSE, Nested(c, f)) = CurQB
       /\ if_then(CurQB, TRUE, Nested(FALSE, f)) = CurQB
       /\ if_then(CurQB, TRUE, Nested(TRUE, f)) = Ran(CurQB, f)
  /\ \A s \in NodeStrings, n \in NodeNames, m \in NodeNames :
       /\ NodeBuilder_if_then(s, FALSE, NodeWith(n)) = s
       /\ NodeBuilder_if_then(s, TRUE, NodeWith(n)) = s \o ARROW \o n
       /\ NodeBuilder_if_then(s, TRUE, NodeWith(n) \o NodeWith(m))
            = s \o ARROW \o n \o ARROW \o m
       /\ \A c \in BOOLEAN :
            NodeBuilder_if_then(s, FALSE, Nested(c, NodeWith(n))) = s
       /\ NodeBuilder_if_then(s, TRUE, Nested(FALSE, NodeWith(n))) = s
       /\ NodeBuilder_if_then(s, TRUE, Nested(TRUE, NodeWith(n))) = s \o ARROW \o n

\* A builder with segments, a registered param and a held string, on which
\* if_then(false, ..) changes nothing and if_then(true, ..) adds a segment.
C21_Witness ==
  /\ qbpc = "open"
  /\ segments = <<kwSELECT, X>>
  /\ parameters # {}
  /\ storage # <<>>
  /\ if_then(CurQB, FALSE, <<[op |-> "raw", a |-> X]>>) = CurQB
  /\ if_then(CurQB, TRUE, Nested(TRUE, <<[op |-> "raw", a |-> X]>>)).segments
       = <<kwSELECT, X, X>>

(***************************************************************************)
(* C22: commas(action) runs the action on a fresh sub-builder and, if that *)
(* sub-builder ends with n segments, appends to the parent exactly those n *)
(* segments in order with n-1 `,` segments between consecutive ones        *)
(* (nothing when n = 0); the parent's earlier segments and registered      *)
(* params are unchanged and nothing registered on the sub-builder other    *)
(* than its segments reaches the parent.                                   *)
(***************************************************************************)
C22_Commas ==
  \A f \in Actions \cup RegisteringActions :
    LET other == Apply(f, NewQB).segments
        n == Len(other)
        before == Len(segments)
        after == commas(CurQB, f)
    IN /\ Len(after.segments) = before + (IF n = 0 THEN 0 ELSE 2 * n - 1)
       /\ SubSeq(after.segments, 1, before) = segments
       /\ \A i \in 1..n : after.segments[before + 2 * i - 1] = other[i]
       /\ \A i \in 1..(n - 1) : after.segments[before + 2 * i] = COMMA
       /\ after.parameters = parameters
       /\ after.storage = storage

\* A parent with a segment and no registered param, and a closure that adds
\* two segments, registers a param and holds a string on the sub-builder.
C22_Witness ==
  /\ qbpc = "open"
  /\ segments = <<kwSET>>
  /\ parameters = {}
  /\ LET f == <<[op |-> "raw", a |-> X], [op |-> "raw", a |-> X],
                [op |-> "param", k |-> X, v |-> <<"y">>], [op |-> "hold", s |-> X]>>
     IN /\ f \in RegisteringActions
        /\ Apply(f, NewQB).parameters # {}
        /\ commas(CurQB, f).segments = <<kwSET, X, COMMA, X>>

(***************************************************************************)
(* C23: and_group(condition, action) appends, in order, `AND`, `(`, the    *)
(* condition, the segments the action adds, and `)`; for any nesting depth *)
(* of and_group calls whose actions add no parentheses of their own, the   *)
(* parentheses in the built query are balanced and properly nested.        *)
(***************************************************************************)
\* The segments a closure of raw and and_group calls adds.
RECURSIVE GroupSegments(_)
GroupSegments(f) ==
  IF f = <<>> THEN <<>>
  ELSE (IF Head(f).op = "raw" THEN <<Head(f).a>>
        ELSE <<kwAND, LPAREN>> \o (IF Head(f).a = EMPTY THEN <<>> ELSE <<Head(f).a>>)
               \o GroupSegments(Head(f).f) \o <<RPAREN>>)
       \o GroupSegments(Tail(f))

\* The nesting depth after each character of a text; -1 once a `)` closes
\* nothing.
RECURSIVE ParenDepth(_, _)
ParenDepth(text, depth) ==
  IF depth < 0 \/ text = <<>> THEN depth
  ELSE ParenDepth(Tail(text),
         CASE Head(text) = "(" -> depth + 1
           [] Head(text) = ")" -> depth - 1
           [] OTHER -> depth)

Balanced(text) == ParenDepth(text, 0) = 0

C23_AndGroup ==
  /\ Balanced(BuildJoin(segments))
  /\ qbpc = "built" => Balanced(output)
  /\ \A a \in Args, f \in GroupActions(MaxNesting) :
       LET after == and_group(CurQB, a, f) IN
       /\ after.segments =
            segments \o <<kwAND, LPAREN>> \o (IF a = EMPTY THEN <<>> ELSE <<a>>)
              \o GroupSegments(f) \o <<RPAREN>>
       /\ Balanced(BuildJoin(after.segments))

\* A built query in which an and_group closure called and_group again.
C23_Witness ==
  /\ qbpc = "built"
  /\ segments = and_group(NewQB, X,
                  <<[op |-> "and_group", a |-> X,
                     f |-> <<[op |-> "raw", a |-> X]>>]>>).segments
  /\ segments = <<kwAND, LPAREN, X, kwAND, LPAREN, X, X, RPAREN, RPAREN>>
  /\ ParenDepth(SubSeq(output, 1, 13), 0) = 2
  /\ Balanced(output)

(***************************************************************************)
(* C24: a relation declared as `->name->Type as alias` is exposed under    *)
(* `alias` and renders as `->name->Type`, and one declared with the        *)
(* incoming arrow renders as `<-name<-Type`; traversing through either     *)
(* kind of relation to a property follows the same path-building steps,    *)
(* the two differing only in the arrow token.                              *)
(***************************************************************************)
\* The same declaration with the arrow of the other direction.
Mirrored(r) ==
  [r EXCEPT !.relation_type =
     IF @ = "OutgoingEdge" THEN "IncomingEdge" ELSE "OutgoingEdge"]

Arrow(r) == IF r.relation_type = "OutgoingEdge" THEN <<"-", ">">> ELSE <<"<", "-">>

\* A text with every arrow of one direction replaced by the other's.
RECURSIVE Flipped(_)
Flipped(text) ==
  IF Len(text) < 2 THEN text
  ELSE IF SubSeq(text, 1, 2) = <<"-", ">">>
       THEN <<"<", "-">> \o Flipped(SubSeq(text, 3, Len(text)))
  ELSE IF SubSeq(text, 1, 2) = <<"<", "-">>
       THEN <<"-", ">">> \o Flipped(SubSeq(text, 3, Len(text)))
  ELSE <<Head(text)>> \o Flipped(Tail(text))

SharedReferenceOps == {"allow_value_serialize", "serialize"}

C25_SharedCallsChangeNothing ==
  [][fkOp' \in SharedReferenceOps =>
       /\ inner' = inner
       /\ SerializeForeignKey(inner', allow_value_serialize')
            = SerializeForeignKey(inner, allow_value_serialize)]_vars

\* One holder has called allow_value_serialize on a loaded ForeignKey: the
\* other holder's serialization, which emitted the key, now emits the value.
C25_Witness ==
  /\ fkOp = "allow_value_serialize"
  /\ is_loaded(inner)
  /\ into_key(inner.v).ok
  /\ SerializeForeignKey(inner, <<>>) = Ok(JStr(into_key(inner.v).val))
  /\ SerializeForeignKey(inner, allow_value_serialize) = Ok(SerializeAccount(inner.v))

(***************************************************************************)
(* C26: each traversal call returns a new origin path whose leading slots  *)
(* are the receiver's path, unchanged and in the same order, extended by a *)
(* fixed number of appended slots; the receiver's own path is not          *)
(* modified, path length strictly increases with traversal depth, and the  *)
(* root model constant always has the empty path.                          *)
(***************************************************************************)
\* The slots one traversal call appends: N + 1 in field!, N + 2 in the
\* functions the procedural macro emits.
AppendedSlots == IF generator = "macro_rules" THEN 1 ELSE 2

C26_OriginGrowsByAppending ==
  /\ [](/\ Len(idents) = 0 => origin = None
        /\ Len(OriginSegments(origin)) = AppendedSlots * Len(idents))
  /\ [][idents' # idents =>
          LET receiver == OriginSegments(origin)
              returned == OriginSegments(origin')
          IN /\ Len(idents') = Len(idents) + 1
             /\ Len(returned) = Len(receiver) + AppendedSlots
             /\ Len(returned) > Len(receiver)
             /\ SubSeq(returned, 1, Len(receiver)) = receiver]_vars

\* file.author().files().author(): three traversal calls deep, through field!
\* or through the generated functions.
C26_Witness ==
  /\ idents = <<col_author, col_files, col_author>>
  /\ \/ origin = Some(<<col_author, col_files, col_author>>)
     \/ origin = Some(<<EMPTY, col_author, DOT, col_files, DOT, col_author>>)

(***************************************************************************)
(* C27: whenever a ForeignKey operation that converts a value to a key     *)
(* (as_key, push, pop) returns an IntoKeyError, the ForeignKey is left     *)
(* exactly as it was before the call: same state, same payload, and for    *)
(* vector payloads the same elements in the same order.                    *)
(***************************************************************************)
ErrorLeavesUnchanged(ops) ==
  (fkOp' \in ops /\ ~fkRet'.ok) =>
    /\ inner' = inner
    /\ allow_value_serialize' = allow_value_serialize

\* The part that holds: as_key and push convert before they store.
AsKeyPushErrorsChangeNothing == [][ErrorLeavesUnchanged({"as_key", "push"})]_vars

C27_ErrorsChangeNothing ==
  [][ErrorLeavesUnchanged({"as_key", "push", "pop"})]_vars

\* pop has returned MissingId on a vector of values that held two accounts:
\* the one without an id, which was last, is gone.
C27_Witness ==
  /\ fkOp = "pop"
  /\ fkRet = Err("MissingId")
  /\ inner = Loaded(<<[id |-> Some("Account:John"), handle |-> "JohnTheUser"]>>)

(***************************************************************************)
(* C28: build() terminates for every QueryBuilder, whatever keys and       *)
(* values were registered with param(), including a value that contains    *)
(* its own key, a value that contains another registered key, and an empty *)
(* key.                                                                    *)
(***************************************************************************)
C28_BuildTerminates == (qbpc = "replace") ~> (qbpc = "built")

\* The while loop is at a key it still finds after having replaced it, and
\* the value it writes contains the key (or the key is empty): every
\* replacement leaves an occurrence to find.
FindsItsKeyAgain ==
  /\ qbpc = "replace"
  /\ cur # None
  /\ Find(output, cur[1][1]) # 0
  /\ Find(cur[1][2], cur[1][1]) # 0

\* Once there, the loop stays there: the only step it can take is another
\* replacement, after which the key is found again.
EndlessLoopNeverExits == [][FindsItsKeyAgain => FindsItsKeyAgain']_vars

\* The loop is only ever cut short by the growth cap at such a key.
CapStopsOnlyEndlessLoops ==
  (/\ qbpc = "replace" /\ cur # None
   /\ Find(output, cur[1][1]) # 0
   /\ Len(output) - Len(cur[1][1]) + Len(cur[1][2])
        > Len(BuildJoin(segments)) + MaxGrowth) => FindsItsKeyAgain

\* The part that holds: without an empty key and without a value that
\* contains its own key, build returns, also when values contain other keys.
TerminatesWithoutSelfReference ==
  (/\ qbpc = "replace"
   /\ \A p \in parameters : p[1] # EMPTY /\ Find(p[2], p[1]) = 0)
    ~> (qbpc = "built")

C28_Witness ==
  /\ FindsItsKeyAgain
  /\ segments = <<<<"x">>>>
  /\ parameters = {<<<<"x">>, <<"x", "x">>>>}
  /\ output = <<"x", "x", "x">>

(***************************************************************************)
(* C29: build() is deterministic: two builders holding the same segments   *)
(* in the same order and the same set of registered param key/value pairs  *)
(* produce the same string, independent of the order in which the param    *)
(* map is iterated.                                                        *)
(***************************************************************************)
\* The while loop of build for one key, followed for at most `steps`
\* replacements.
RECURSIVE ReplaceWhileFound(_, _, _, _)
ReplaceWhileFound(text, k, v, steps) ==
  IF Find(text, k) = 0 \/ steps = 0 THEN text
  ELSE ReplaceWhileFound(ReplaceRange(text, Find(text, k), Len(k), v), k, v, steps - 1)

MaxLoopSteps == 6

\* build with the parameters iterated in a given order; <<>> when a loop
\* has not ended after MaxLoopSteps replacements.
RECURSIVE BuildInOrder(_, _)
BuildInOrder(text, order) ==
  IF order = <<>> THEN <<text>>
  ELSE LET replaced == ReplaceWhileFound(text, order[1][1], order[1][2], MaxLoopSteps)
       IN IF Find(replaced, order[1][1]) # 0 THEN <<>>
          ELSE BuildInOrder(replaced, Tail(order))

\* Every order in which a map holding these pairs can be iterated.
RECURSIVE IterationOrders(_)
IterationOrders(ps) ==
  IF ps = {} THEN {<<>>}
  ELSE UNION {{<<p>> \o o : o \in IterationOrders(ps \ {p})} : p \in ps}

\* What builders with these segments and parameters can return.
BuildResults(segs, ps) ==
  {BuildInOrder(BuildJoin(segs), order)[1] :
     order \in {o \in IterationOrders(ps) : BuildInOrder(BuildJoin(segs), o) # <<>>}}

\* What build returns is the result of one of the iteration orders, and the
\* only one when no value contains a registered key.
BuiltFollowsSomeOrder ==
  qbpc = "built" =>
    /\ output \in BuildResults(segments, parameters)
    /\ (\A p, q \in parameters : Find(p[2], q[1]) = 0) =>
         BuildResults(segments, parameters) = {output}

C29_BuildIsDeterministic ==
  qbpc = "built" => BuildResults(segments, parameters) = {output}

\* build() returned "y" for raw("x") with x -> y and y -> z; a builder with
\* the same segments and parameters whose map yields x first returns "z".
C29_Witness ==
  /\ qbpc = "built"
  /\ segments = <<<<"x">>>>
  /\ parameters = {<<<<"x">>, <<"y">>>>, <<<<"y">>, <<"z">>>>}
  /\ output = <<"y">>
  /\ BuildResults(segments, parameters) = {<<"y">>, <<"z">>}

(***************************************************************************)
(* C30: for all unsigned 64-bit page and page_size,                        *)
(* Pagination::new_page(page, page_size) yields a pagination whose limit() *)
(* equals page_size and whose start() equals page * page_size, with no     *)
(* arithmetic overflow, wrap-around or panic in constructing the range or  *)
(* computing the limit.                                                    *)
(***************************************************************************)
C30_NewPageExact ==
  /\ pagination # None =>
       /\ pagination[1].ok
       /\ pagination[1].val.start = page * page_size
       /\ pagination[1].val.end = (page + 1) * page_size
  /\ limitRet # None => limitRet[1] = Ok(page_size)
  /\ startRet # None => startRet[1] = page * page_size

\* The part that holds: when (page + 1) * page_size fits in a u64, and
\* page + 1 does, the range, the limit and the start are exact.
ExactWhenItFits ==
  (page + 1 < U64 /\ (page + 1) * page_size < U64) =>
    /\ pagination # None => pagination[1] = Ok(Pagination(page * page_size,
                                                          (page + 1) * page_size))
    /\ limitRet # None => limitRet[1] = Ok(page_size)
    /\ startRet # None => startRet[1] = page * page_size

\* Without overflow checks the products wrapped and start() returned less
\* than page * page_size.
C30_Witness ==
  /\ ~overflow_checks
  /\ page * page_size >= U64
  /\ pagination # None /\ pagination[1].ok
  /\ startRet # None
  /\ startRet[1] < page * page_size

====
